---------------------------- MODULE Spec2Model ----------------------------
(***************************************************************************)
(* A model of the Trial Analyzer pipeline (zcm58/TT-Learning-Effect):      *)
(* src/src/LearningEffectAnalysis.py (the monolithic copy, "mono") and     *)
(* src/src/analysis_core.py (the factored copy, "core").                   *)
(*                                                                         *)
(* File names are sequences of tokens.  A token is one digit, one of the   *)
(* punctuation characters "." and "_", or a word: a maximal run of         *)
(* letters.  Every pattern the code matches (the regular expression        *)
(* (\d+)\.xls, the prefixes of load_trial_series_from_id) ends each word   *)
(* at a non-letter, so matching token by token is matching character by    *)
(* character.                                                              *)
(*                                                                         *)
(* Values of trial records are small integers, and a mean is the exact     *)
(* fraction <<numerator, denominator>> in lowest terms.                    *)
(***************************************************************************)
EXTENDS Integers, Sequences, FiniteSets, TLC

VARIABLES
    fnName,     \* extract_trial_number: the file name it is applied to
    fnResult,   \* extract_trial_number: [done |-> FALSE] or its return value
    gIn,        \* gather_means_*: the participant directory, the timeline
                \* directory and the arguments of the call
    gOut,       \* gather_means_*: what each of the two functions did
    tIn,        \* the timeline functions: the participant directory and the
                \* timeline directory they are applied to
    tOut,       \* the timeline functions: what each call did
    params,     \* run_analysis: the copy that runs and its analysis_params
    pc,         \* run_analysis: where the call is
    cond_dir,   \* run_analysis: cond_dir.name of the condition being processed
    agg,        \* run_analysis: the items of agg, in insertion order
    stat_i,     \* run_analysis: the item of agg.items() the second loop is at
    results,    \* run_analysis: the rows appended to results
    log,        \* run_analysis: the messages handed to logger, in order
    exc,        \* run_analysis: the exception that left the call, if one did
    seen,       \* the entries root_dir.iterdir() has produced
    hist,       \* for each of them, the entries its iterdir() has produced,
                \* each with what gather_means_* did on it
    shapiro_calls,  \* the calls of shapiro that returned: argument and p-value
    results_df,     \* TrialAnalyzerApp: self.results_df
    run_btn,        \* TrialAnalyzerApp: the state of self.run_btn
    export_btn,     \* TrialAnalyzerApp: the state of self.export_btn
    log_box,        \* TrialAnalyzerApp: the lines of self.log_box
    inputs,         \* TrialAnalyzerApp: what the input widgets hold
    clicks,         \* the calls of start_analysis so far
    workers         \* the threads start_analysis has started, each with its
                    \* params and the statement it is at

extractVars == <<fnName, fnResult>>

gatherVars == <<gIn, gOut>>

runVars == <<params, pc, cond_dir, agg, stat_i, results, log, exc, seen, hist,
             shapiro_calls>>

threadVars == <<results_df>>

guiVars == <<run_btn, export_btn, log_box, inputs, clicks, workers>>

timelineVars == <<tIn, tOut>>

vars == <<extractVars, gatherVars, timelineVars, runVars, threadVars, guiVars>>

-----------------------------------------------------------------------------
(* Bounds *)

\* Longest file name, in tokens, that extract_trial_number is applied to.
MaxNameLen == 5

\* Most files in the outcome subfolder that gather_means_* is applied to.
MaxFiles == 4

\* Largest N (n_trials) of a call.
MaxN == 2

\* Most rows of a timeline file.
MaxEvents == 4

\* Most entries of the data root that run_analysis reads.
MaxTopLevel == 2

\* Most entries of the condition directories, all together, that
\* run_analysis reads.
MaxParts == 3

-----------------------------------------------------------------------------
(* Characters and words *)

Digits == {"0", "1", "2", "3", "4", "5", "6", "7", "8", "9"}

IsDigit(t) == t \in Digits

DigitVal(t) ==
    CASE t = "0" -> 0 [] t = "1" -> 1 [] t = "2" -> 2 [] t = "3" -> 3
      [] t = "4" -> 4 [] t = "5" -> 5 [] t = "6" -> 6 [] t = "7" -> 7
      [] t = "8" -> 8 [] t = "9" -> 9

IsPunct(t) == t \in {".", "_"}

IsWord(t) == ~IsDigit(t) /\ ~IsPunct(t) /\ t # " "

\* str.lower() on the words of the model's vocabulary.
Lower(t) ==
    CASE t = "XLS" -> "xls"
      [] t = "XLSX" -> "xlsx"
      [] t = "Serve" -> "serve"
      [] t = "SERVE" -> "serve"
      [] t = "Return" -> "return"
      [] t = "Win" -> "win"
      [] t = "Loss" -> "loss"
      [] t = "P" -> "p"
      [] t = "W" -> "w"
      [] t = "Timeline" -> "timeline"
      [] OTHER -> t

LowerName(name) == [i \in 1..Len(name) |-> Lower(name[i])]

\* The words that start with the letters x, l, s in any letter case.
StartsWithXls(t) == Lower(t) \in {"xls", "xlsx", "xlsm"}

\* int() of a run of digits.
RECURSIVE IntOf(_)
IntOf(ds) ==
    IF Len(ds) = 0 THEN 0
    ELSE 10 * IntOf(SubSeq(ds, 1, Len(ds) - 1)) + DigitVal(ds[Len(ds)])

-----------------------------------------------------------------------------
(* extract_trial_number *)

\* The last index of the maximal run of digits that starts at i.
RECURSIVE RunEnd(_, _)
RunEnd(name, i) ==
    IF i < Len(name) /\ IsDigit(name[i + 1]) THEN RunEnd(name, i + 1) ELSE i

\* (\d+)\.xls with re.IGNORECASE matches at i: \d+ is greedy, and giving
\* back digits never helps since a "." must follow.
MatchesAt(name, i) ==
    /\ IsDigit(name[i])
    /\ RunEnd(name, i) + 2 <= Len(name)
    /\ name[RunEnd(name, i) + 1] = "."
    /\ StartsWithXls(name[RunEnd(name, i) + 2])

NoMatch == 0 - 1

\* re.search returns the leftmost match; group 1 is its run of digits.
extract_trial_number(name) ==
    LET starts == {i \in 1..Len(name) : MatchesAt(name, i)}
    IN  IF starts = {} THEN NoMatch
        ELSE LET i == CHOOSE s \in starts : \A o \in starts : s <= o
             IN  IntOf(SubSeq(name, i, RunEnd(name, i)))

-----------------------------------------------------------------------------
(* Exceptions and results *)

\* The Python class of the exception each raise site raises.
ExcClass(site) ==
    CASE site \in {"OutcomeFolderNotFound", "NoValidFiles", "NoTimelineFile",
                   "SubfolderNotFound", "NoMatchingFile"} -> "FileNotFoundError"
      [] site \in {"TooFewFiles", "TooFewEvents", "InvalidTrialId",
                   "TimelineColumns", "NoVariableValueColumns",
                   "ShapiroTooFewData"} -> "ValueError"
      [] site = "MissingInLastBlock" -> "KeyError"
      [] site = "TracebackNotImported" -> "NameError"

Ok(v) == [ok |-> TRUE, val |-> v]

Raise(site) == [ok |-> FALSE, site |-> site, cls |-> ExcClass(site)]

-----------------------------------------------------------------------------
(* Exact fractions *)

Abs(x) == IF x < 0 THEN 0 - x ELSE x

RECURSIVE GCD(_, _)
GCD(a, b) == IF b = 0 THEN a ELSE GCD(b, a % b)

\* The fraction n/d, d > 0, in lowest terms.
Frac(n, d) ==
    LET g == GCD(Abs(n), d) IN <<n \div g, d \div g>>

FSub(x, y) == Frac(x[1] * y[2] - y[1] * x[2], x[2] * y[2])

FAdd(x, y) == Frac(x[1] * y[2] + y[1] * x[2], x[2] * y[2])

RECURSIVE FSum(_)
FSum(xs) == IF Len(xs) = 0 THEN <<0, 1>> ELSE FAdd(xs[1], FSum(Tail(xs)))

\* numpy.mean / pandas mean of a non-empty sequence of fractions.
FMean(xs) == LET s == FSum(xs) IN Frac(s[1], s[2] * Len(xs))

-----------------------------------------------------------------------------
(* load_series_from_file *)

\* str.strip on the column headers of the model's vocabulary.
Strip(h) == CASE h = " Value " -> "Value" [] h = " Variable" -> "Variable" [] OTHER -> h

\* 'var' in c.lower() and 'val' in c.lower() on that vocabulary.
ContainsVar(h) == h \in {"Variable", "var", "VarName"}

ContainsVal(h) == h \in {"Value", "val", "Interval"}

\* next(c for c in df.columns if ...): the first column whose flag is set,
\* 0 if none; flags[i] tells whether column i satisfies the condition.
FirstCol(flags) ==
    LET hits == {i \in 1..Len(flags) : flags[i]}
    IN  IF hits = {} THEN 0 ELSE CHOOSE i \in hits : \A j \in hits : i <= j

ColNamed(cols, h) == FirstCol([i \in 1..Len(cols) |-> cols[i] = h])

\* A trial file's table is [cols |-> headers, rows |-> rows of cells]; the
\* result is the Series of <<variable, value>> pairs in row order.
load_series_from_file(file) ==
    LET cols == [i \in 1..Len(file.cols) |-> Strip(file.cols[i])]
        exact == ColNamed(cols, "Variable") # 0 /\ ColNamed(cols, "Value") # 0
        vcol == IF exact THEN ColNamed(cols, "Variable") ELSE FirstCol([i \in 1..Len(cols) |-> ContainsVar(cols[i])])
        ycol == IF exact THEN ColNamed(cols, "Value") ELSE FirstCol([i \in 1..Len(cols) |-> ContainsVal(cols[i])])
    IN  IF vcol = 0 \/ ycol = 0 THEN Raise("NoVariableValueColumns")
        ELSE Ok([i \in 1..Len(file.rows) |-> <<file.rows[i][vcol], file.rows[i][ycol]>>])

-----------------------------------------------------------------------------
(* Block means: the tail of gather_means_timeline and gather_means_outcome *)

\* The calls that raise left out of the list.
Collect_skip_failed(rs) == Ok([i \in 1..Len(SelectSeq(rs, LAMBDA r : r.ok)) |->
                                  SelectSeq(rs, LAMBDA r : r.ok)[i].val])

\* A list comprehension over calls that may raise: the values in order, or
\* the first exception raised.
RECURSIVE Collect(_)
Collect(rs) ==
    IF Len(rs) = 0 THEN Ok(<<>>)
    ELSE IF ~rs[1].ok THEN rs[1]
    ELSE LET rest == Collect(Tail(rs))
         IN  IF ~rest.ok THEN rest ELSE Ok(<<rs[1].val>> \o rest.val)

SeriesVars(series) == [i \in 1..Len(series) |-> series[i][1]]

\* The index of pd.concat(..., axis=1): the variables of the block's records,
\* each once, in the order they first appear.
RECURSIVE Dedup(_)
Dedup(xs) ==
    IF Len(xs) = 0 THEN <<>>
    ELSE LET init == Dedup(SubSeq(xs, 1, Len(xs) - 1))
             x == xs[Len(xs)]
         IN  IF \E i \in 1..Len(init) : init[i] = x THEN init ELSE Append(init, x)

RECURSIVE Flatten(_)
Flatten(xss) == IF Len(xss) = 0 THEN <<>> ELSE xss[1] \o Flatten(Tail(xss))

BlockIndex(block) == Dedup(Flatten([i \in 1..Len(block) |-> SeriesVars(block[i])]))

\* The values a block's records give a variable, a record that lacks it
\* giving none (NaN, which mean() skips).
RECURSIVE ValuesOf(_, _)
ValuesOf(block, var) ==
    IF Len(block) = 0 THEN <<>>
    ELSE LET s == block[1]
             here == SelectSeq(s, LAMBDA pr : pr[1] = var)
         IN  [i \in 1..Len(here) |-> <<here[i][2], 1>>] \o ValuesOf(Tail(block), var)

\* df.loc[var].mean()
RowMean(block, var) == FMean(ValuesOf(block, var))

\* The dictionary over the variables of both blocks.
BlockMeans_index_of_both(first, last) ==
    LET idx == BlockIndex(first \o last)
        firstIdx == BlockIndex(first)
        lastIdx == BlockIndex(last)
        has(ix, v) == \E i \in 1..Len(ix) : ix[i] = v
    IN  IF \E i \in 1..Len(idx) : ~has(firstIdx, idx[i]) \/ ~has(lastIdx, idx[i])
        THEN Raise("MissingInLastBlock")
        ELSE Ok([i \in 1..Len(idx) |->
                    [var |-> idx[i],
                     first |-> RowMean(first, idx[i]),
                     last |-> RowMean(last, idx[i])]])

\* The dictionary over the variables of the first block that the last block
\* has too, the others left out.
BlockMeans_shared_only(first, last) ==
    LET lastIdx == BlockIndex(last)
        has(v) == \E i \in 1..Len(lastIdx) : lastIdx[i] = v
        idx == SelectSeq(BlockIndex(first), has)
    IN  Ok([i \in 1..Len(idx) |->
               [var |-> idx[i],
                first |-> RowMean(first, idx[i]),
                last |-> RowMean(last, idx[i])]])

\* {var: (first_df.loc[var].mean(), last_df.loc[var].mean()) for var in first_df.index}
\* as the sequence of its items; last_df.loc[var] raises KeyError for a
\* variable no record of the last block has.
BlockMeans(first, last) ==
    LET idx == BlockIndex(first)
        lastIdx == BlockIndex(last)
        has(v) == \E i \in 1..Len(lastIdx) : lastIdx[i] = v
    IN  IF \E i \in 1..Len(idx) : ~has(idx[i]) THEN Raise("MissingInLastBlock")
        ELSE Ok([i \in 1..Len(idx) |->
                    [var |-> idx[i],
                     first |-> RowMean(first, idx[i]),
                     last |-> RowMean(last, idx[i])]])

\* first_df, last_df and the dictionary of gather_means_*, from the results
\* of loading each item of the two blocks: the first block is loaded whole,
\* then the last block, and the first load that raises ends the call.
MeansOfBlocks(firstLoads, lastLoads) ==
    LET f == Collect(firstLoads)
    IN  IF ~f.ok THEN f
        ELSE LET l == Collect(lastLoads)
             IN  IF ~l.ok THEN l ELSE BlockMeans(f.val, l.val)

\* The N items that follow the first N.
LastN_after_first(xs, n) == SubSeq(xs, n + 1, 2 * n)

FirstN(xs, n) == SubSeq(xs, 1, n)

LastN(xs, n) == SubSeq(xs, Len(xs) - n + 1, Len(xs))

-----------------------------------------------------------------------------
(* gather_means_outcome *)

\* Path.glob("*.xls*"): the names that contain ".xls".  The directories of
\* the model write their extensions in lower case, where the glob of every
\* platform agrees.
GlobXls(name) ==
    \E i \in 1..(Len(name) - 1) :
        name[i] = "." /\ name[i + 1] \in {"xls", "xlsx", "xlsm"}

\* The files left in the order the directory enumerates them.
SortPairs_enumeration_order(ps) == ps

\* A stable sort of <<key, item>> pairs by key: equal keys keep their order.
RECURSIVE SortPairs(_)
SortPairs(ps) ==
    IF Len(ps) = 0 THEN <<>>
    ELSE LET init == SortPairs(SubSeq(ps, 1, Len(ps) - 1))
             x == ps[Len(ps)]
             before == SelectSeq(init, LAMBDA y : y[1] <= x[1])
             after == SelectSeq(init, LAMBDA y : y[1] > x[1])
         IN  before \o <<x>> \o after

\* sorted(files, key=extract_trial_number)
SortedByTrialNumber(files) ==
    LET ps == SortPairs([i \in 1..Len(files) |->
                            <<extract_trial_number(files[i].name), files[i]>>])
    IN  [i \in 1..Len(ps) |-> ps[i][2]]

\* A participant directory is [name |-> tokens, folders |-> a function from
\* the names of its subfolders to their listings in enumeration order].
ValidTrialFiles(listing) ==
    SelectSeq(listing,
              LAMBDA f : GlobXls(f.name) /\ extract_trial_number(f.name) # NoMatch)

gather_means_outcome(part, condition, outcome, n) ==
    IF Lower(outcome) \notin DOMAIN part.folders
    THEN Raise("OutcomeFolderNotFound")
    ELSE LET all_files == ValidTrialFiles(part.folders[Lower(outcome)])
             files == SortedByTrialNumber(all_files)
         IN  IF Len(files) = 0 THEN Raise("NoValidFiles")
             ELSE IF Len(files) < 2 * n THEN Raise("TooFewFiles")
             ELSE LET first_files == FirstN(files, n)
                      last_files == LastN(files, n)
                  IN  MeansOfBlocks(
                          [i \in 1..n |-> load_series_from_file(first_files[i])],
                          [i \in 1..n |-> load_series_from_file(last_files[i])])

-----------------------------------------------------------------------------
(* find_timeline_file, load_timeline *)

StartsWith(name, prefix) ==
    Len(prefix) <= Len(name) /\ SubSeq(name, 1, Len(prefix)) = prefix

ContainsSeq(name, part) ==
    \E i \in 0..(Len(name) - Len(part)) : SubSeq(name, i + 1, i + Len(part)) = part

\* "timeline" in fname_lower, on the words of the vocabulary.
ContainsTimeline(name) == \E i \in 1..Len(name) : name[i] \in {"timeline", "timelines"}

\* The timeline directory is [isDir |-> BOOLEAN, files |-> its listing]; a
\* timeline file is [name |-> tokens, cols |-> headers, rows |-> rows of cells].
find_timeline_file(part, timeline_dir, condition) ==
    LET participant_id == LowerName(part.name)
        condition_lower == Lower(condition)
        matches(f) ==
            LET fname_lower == LowerName(f.name)
            IN  /\ GlobXls(f.name)
                /\ StartsWith(fname_lower, participant_id \o <<"_">>)
                /\ ContainsSeq(fname_lower, <<"_", condition_lower, "_">>)
                /\ ContainsTimeline(fname_lower)
        found_files == IF timeline_dir.isDir
                       THEN SelectSeq(timeline_dir.files, matches)
                       ELSE <<>>
    IN  IF Len(found_files) = 0 THEN Raise("NoTimelineFile") ELSE Ok(found_files[1])

\* "type" in c.lower() and "trial" in c.lower() on the headers of the vocabulary.
ContainsType(h) == h \in {"Type", "type", "Event Type"}

ContainsTrial(h) == h \in {"Trial", "trial", "Trial Index"}

\* str.strip: a cell is the tokens of its str(), " " being white space.
RECURSIVE StripLeft(_)
StripLeft(ts) == IF Len(ts) > 0 /\ ts[1] = " " THEN StripLeft(Tail(ts)) ELSE ts

RECURSIVE StripRight(_)
StripRight(ts) ==
    IF Len(ts) > 0 /\ ts[Len(ts)] = " "
    THEN StripRight(SubSeq(ts, 1, Len(ts) - 1))
    ELSE ts

StripTokens(ts) == StripRight(StripLeft(ts))

load_timeline(part, timeline_dir, condition) ==
    LET found == find_timeline_file(part, timeline_dir, condition)
    IN  IF ~found.ok THEN found
        ELSE LET df == found.val
                 type_col == FirstCol([i \in 1..Len(df.cols) |-> ContainsType(df.cols[i])])
                 index_col == FirstCol([i \in 1..Len(df.cols) |-> ContainsTrial(df.cols[i])])
             IN  IF type_col = 0 \/ index_col = 0 THEN Raise("TimelineColumns")
                 ELSE Ok([i \in 1..Len(df.rows) |->
                            LowerName(StripTokens(df.rows[i][type_col]))
                                \o StripTokens(df.rows[i][index_col])])

-----------------------------------------------------------------------------
(* load_trial_series_from_id, gather_means_timeline *)

\* str.isalpha on one character: the characters of words.
IsAlpha(t) == ~IsDigit(t) /\ ~IsPunct(t) /\ t # " "

\* outcome_str[0] on the words of the vocabulary.
FirstLetter(w) ==
    CASE w = "win" -> "w" [] w = "loss" -> "l" [] w = "trial" -> "t" [] OTHER -> w

\* outcome_str = "".join(filter(str.isalpha, trial_id))
outcome_str_of(trial_id) == SelectSeq(trial_id, IsAlpha)

\* number_str = "".join(filter(str.isdigit, trial_id))
number_str_of(trial_id) == SelectSeq(trial_id, IsDigit)

\* The file kept is the last one that matches: the loop without its break.
load_trial_series_from_id_last_match(part, condition, trial_id) ==
    LET outcome_str == outcome_str_of(trial_id)
        number_str == number_str_of(trial_id)
    IN  IF Len(outcome_str) = 0 \/ Len(number_str) = 0 THEN Raise("InvalidTrialId")
        ELSE IF ~(Len(outcome_str) = 1 /\ outcome_str[1] \in DOMAIN part.folders)
        THEN Raise("SubfolderNotFound")
        ELSE LET base_name == part.name \o <<"_", condition, "_">>
                 pattern_full == base_name \o outcome_str \o number_str \o <<".">>
                 pattern_abbr == base_name \o <<FirstLetter(outcome_str[1])>>
                                    \o number_str \o <<".">>
                 hit(f) ==
                     /\ GlobXls(f.name)
                     /\ \/ StartsWith(LowerName(f.name), LowerName(pattern_full))
                        \/ StartsWith(LowerName(f.name), LowerName(pattern_abbr))
                 found == SelectSeq(part.folders[outcome_str[1]], hit)
             IN  IF Len(found) = 0 THEN Raise("NoMatchingFile")
                 ELSE load_series_from_file(found[Len(found)])

\* The prefixes without the dot that ends the trial number, so that the
\* prefix of trial 1 also starts the name of trial 10.
load_trial_series_from_id_open_prefix(part, condition, trial_id) ==
    LET outcome_str == SelectSeq(trial_id, IsAlpha)
        number_str == SelectSeq(trial_id, IsDigit)
    IN  IF Len(outcome_str) = 0 \/ Len(number_str) = 0 THEN Raise("InvalidTrialId")
        ELSE IF ~(Len(outcome_str) = 1 /\ outcome_str[1] \in DOMAIN part.folders)
        THEN Raise("SubfolderNotFound")
        ELSE LET base_name == part.name \o <<"_", condition, "_">>
                 pattern_full == base_name \o outcome_str \o number_str
                 pattern_abbr == base_name \o <<FirstLetter(outcome_str[1])>>
                                    \o number_str
                 hit(f) ==
                     /\ GlobXls(f.name)
                     /\ \/ StartsWith(LowerName(f.name), LowerName(pattern_full))
                        \/ StartsWith(LowerName(f.name), LowerName(pattern_abbr))
                 found == SelectSeq(part.folders[outcome_str[1]], hit)
             IN  IF Len(found) = 0 THEN Raise("NoMatchingFile")
                 ELSE load_series_from_file(found[1])

\* The letters of an identifier joined are one word.  Several words joined
\* are a word outside the vocabulary, which names no folder of the model.
load_trial_series_from_id(part, condition, trial_id) ==
    LET outcome_str == outcome_str_of(trial_id)
        number_str == number_str_of(trial_id)
    IN  IF Len(outcome_str) = 0 \/ Len(number_str) = 0 THEN Raise("InvalidTrialId")
        ELSE IF ~(Len(outcome_str) = 1 /\ outcome_str[1] \in DOMAIN part.folders)
        THEN Raise("SubfolderNotFound")
        ELSE LET base_name == part.name \o <<"_", condition, "_">>
                 pattern_full == base_name \o outcome_str \o number_str \o <<".">>
                 pattern_abbr == base_name \o <<FirstLetter(outcome_str[1])>>
                                    \o number_str \o <<".">>
                 hit(f) ==
                     /\ GlobXls(f.name)
                     /\ \/ StartsWith(LowerName(f.name), LowerName(pattern_full))
                        \/ StartsWith(LowerName(f.name), LowerName(pattern_abbr))
                 found == SelectSeq(part.folders[outcome_str[1]], hit)
             IN  IF Len(found) = 0 THEN Raise("NoMatchingFile")
                 ELSE load_series_from_file(found[1])

gather_means_timeline(part, timeline_dir, condition, n) ==
    LET timeline == load_timeline(part, timeline_dir, condition)
    IN  IF ~timeline.ok THEN timeline
        ELSE IF Len(timeline.val) < 2 * n THEN Raise("TooFewEvents")
        ELSE LET first_ids == FirstN(timeline.val, n)
                 last_ids == LastN(timeline.val, n)
             IN  MeansOfBlocks(
                     [i \in 1..n |-> load_trial_series_from_id(part, condition, first_ids[i])],
                     [i \in 1..n |-> load_trial_series_from_id(part, condition, last_ids[i])])

-----------------------------------------------------------------------------
(* Values of the variables a specification does not use *)

NoName == <<>>

NoResult == [done |-> FALSE]

NoGatherInput == [used |-> FALSE]

NotCalled == [called |-> FALSE]

NoGatherOutput == [outcome |-> NotCalled, timeline |-> NotCalled]

NoParams == [used |-> FALSE]

NoExc == [raised |-> FALSE]

\* self.results_df = None
NoTable == [set |-> FALSE]

\* The window as __init__ leaves it, before any input and any click.
GuiIdle ==
    /\ run_btn = "normal"
    /\ export_btn = "disabled"
    /\ log_box = <<>>
    /\ inputs = [used |-> FALSE]
    /\ clicks = 0
    /\ workers = <<>>

RunIdle ==
    /\ params = NoParams
    /\ pc = "idle"
    /\ cond_dir = ""
    /\ agg = <<>>
    /\ stat_i = 0
    /\ results = <<>>
    /\ log = <<>>
    /\ exc = NoExc
    /\ seen = <<>>
    /\ hist = <<>>
    /\ shapiro_calls = <<>>
    /\ results_df = NoTable
    /\ GuiIdle

ExtractIdle == fnName = NoName /\ fnResult = NoResult

GatherIdle == gIn = NoGatherInput /\ gOut = NoGatherOutput

NoTimelineOutput == [ids |-> NotCalled, means |-> NotCalled, trial |-> NotCalled]

TimelineIdle == tIn = NoGatherInput /\ tOut = NoTimelineOutput

-----------------------------------------------------------------------------
(* Specification of extract_trial_number over bounded file names *)

ExtractAlphabet == {"p", "0", "1", "2", ".", "xls", "XLSX", "txt"}

\* Two adjacent words would be one word, and a name that every platform
\* can hold does not end in a dot.
Canonical(name) ==
    /\ \A i \in 1..(Len(name) - 1) : ~(IsWord(name[i]) /\ IsWord(name[i + 1]))
    /\ name[Len(name)] # "."

ExtractNames ==
    {name \in UNION {[1..k -> ExtractAlphabet] : k \in 1..MaxNameLen} :
        Canonical(name)}

InitExtract ==
    /\ fnName \in ExtractNames
    /\ fnResult = NoResult
    /\ GatherIdle
    /\ TimelineIdle
    /\ RunIdle

CallExtract ==
    /\ fnName # NoName
    /\ ~fnResult.done
    /\ fnResult' = [done |-> TRUE, value |-> extract_trial_number(fnName)]
    /\ UNCHANGED <<fnName, gatherVars, timelineVars, runVars, threadVars, guiVars>>

NextExtract == CallExtract

SpecExtract == InitExtract /\ [][NextExtract]_vars

-----------------------------------------------------------------------------
(* Specification of gather_means_outcome and gather_means_timeline over     *)
(* bounded participant directories                                         *)

P1 == <<"P", "1">>

\* <participant>_<condition>_<outcome><number>.<extension>
TrialName(pname, condition, outcome, number, ext) ==
    pname \o <<"_", condition, "_", outcome>> \o number \o <<".", ext>>

\* A trial table with the columns Variable and Value.
Table(rows) == [cols |-> <<"Variable", "Value">>, rows |-> rows]

AB(a, b) == Table(<< <<"A", a>>, <<"B", b>> >>)

TrialFile(name, table) == [name |-> name, cols |-> table.cols, rows |-> table.rows]

\* The files a listing of P1's outcome subfolder under condition Serve is
\* drawn from; the values of each tell it from every other.
GatherFilePool ==
    { TrialFile(TrialName(P1, "Serve", "win", <<"1">>, "xls"), AB(1, 10)),
      \* a leading zero
      TrialFile(TrialName(P1, "Serve", "win", <<"0", "2">>, "xls"), AB(3, 30)),
      \* after win5 and win6 as a number, before them as text
      TrialFile(TrialName(P1, "serve", "Win", <<"1", "0">>, "xls"), AB(4, 40)),
      \* the abbreviated scheme, and columns found by the fallback
      TrialFile(TrialName(P1, "Serve", "w", <<"3">>, "xlsx"),
                [cols |-> <<"Notes", "VarName", " Value ">>,
                 rows |-> << <<"x", "A", 5>>, <<"x", "B", 50>> >>]),
      \* a numbered file outside the naming scheme, with the number of w3
      TrialFile(<<"trial", "3", ".", "xlsm">>, AB(6, 60)),
      \* no trial number
      TrialFile(<<"notes", ".", "xlsx">>, AB(7, 70)),
      \* P1_Serve_win1.xls.bak.xlsx, with the number of win1 for the code
      TrialFile(TrialName(P1, "Serve", "win", <<"1">>, "xls") \o <<".", "bak", ".", "xlsx">>,
                AB(9, 90)),
      \* no Variable and Value columns
      TrialFile(TrialName(P1, "Serve", "win", <<"5">>, "xls"),
                [cols |-> <<"Name", "Score">>, rows |-> << <<"A", 1>> >>]),
      \* one variable less, one variable more
      TrialFile(TrialName(P1, "Serve", "win", <<"6">>, "xls"),
                Table(<< <<"A", 11>>, <<"C", 1>> >>)) }

\* Directory listings: no file twice, in any enumeration order.
Listings(pool, max) ==
    {l \in UNION {[1..k -> pool] : k \in 0..max} :
        \A i, j \in 1..Len(l) : i # j => l[i] # l[j]}

\* The decimal digits of a natural number.
RECURSIVE DecTokens(_)
DecTokens(k) ==
    LET d == CHOOSE t \in Digits : DigitVal(t) = k % 10
    IN  IF k < 10 THEN <<d>> ELSE Append(DecTokens(k \div 10), d)

\* The timeline that lists exactly the numbered trial files of a listing, by
\* trial number, in the order of their numeric sort.
TimelineOf(pname, condition, outcome, listing) ==
    LET files == SortedByTrialNumber(ValidTrialFiles(listing))
    IN  [name |-> pname \o <<"_", condition, "_", "timeline", ".", "xlsx">>,
         cols |-> <<"Type", "Trial">>,
         rows |-> [i \in 1..Len(files) |->
                     <<<<outcome>>, DecTokens(extract_trial_number(files[i].name))>>]]

GatherInput(folders, listing, n) ==
    [used |-> TRUE,
     part |-> [name |-> P1, folders |-> folders],
     condition |-> "Serve",
     outcome |-> "Win",
     n |-> n,
     timeline_dir |-> [isDir |-> TRUE,
                       files |-> <<TimelineOf(P1, "Serve", "Win", listing)>>]]

InitGather ==
    /\ fnName = NoName
    /\ fnResult = NoResult
    /\ \E n \in 1..MaxN :
          \/ \E l \in Listings(GatherFilePool, MaxFiles) :
                gIn = GatherInput([win |-> l], l, n)
          \* no subfolder of the outcome's name
          \/ \E l \in Listings(GatherFilePool, 1) :
                gIn = GatherInput([loss |-> l], l, n)
          \/ gIn = GatherInput(<<>>, <<>>, n)
    /\ gOut = NoGatherOutput
    /\ TimelineIdle
    /\ RunIdle

CallGatherOutcome ==
    /\ gIn.used
    /\ ~gOut.outcome.called
    /\ gOut' = [gOut EXCEPT !.outcome =
                  [called |-> TRUE,
                   res |-> gather_means_outcome(gIn.part, gIn.condition,
                                                gIn.outcome, gIn.n)]]
    /\ UNCHANGED <<extractVars, gIn, timelineVars, runVars, threadVars, guiVars>>

CallGatherTimeline ==
    /\ gIn.used
    /\ gOut.outcome.called
    /\ ~gOut.timeline.called
    /\ gOut' = [gOut EXCEPT !.timeline =
                  [called |-> TRUE,
                   res |-> gather_means_timeline(gIn.part, gIn.timeline_dir,
                                                 gIn.condition, gIn.n)]]
    /\ UNCHANGED <<extractVars, gIn, timelineVars, runVars, threadVars, guiVars>>

NextGather == CallGatherOutcome \/ CallGatherTimeline

SpecGather == InitGather /\ [][NextGather]_vars

-----------------------------------------------------------------------------
(* Specification of load_timeline, load_trial_series_from_id and            *)
(* gather_means_timeline over bounded timeline files                        *)

\* The rows a timeline file is made of: the cells of its Type and Trial
\* columns as str() gives them.
TimelineRowKinds ==
    { \* white space and capitals in the type
      << <<" ", "Win", " ">>, <<"1">> >>,
      << <<"win">>, <<"1", "0">> >>,
      << <<"win">>, <<"2">> >>,
      \* a Trial column read as floating point
      << <<"win">>, <<"1", ".", "0">> >>,
      \* an empty cell of the Trial column
      << <<"win">>, <<"nan">> >> }

TimelineFile(rows) ==
    [name |-> P1 \o <<"_", "Serve", "_", "timeline", ".", "xlsx">>,
     cols |-> <<"Type", "Trial">>,
     rows |-> rows]

\* The subfolders of participant P1 under condition Serve.
TimelineFolders ==
    { \* trial 10 is enumerated before trial 1, a text file and the
      \* abbreviated name of trial 1 before its full name, and trial 2 has
      \* no Variable and Value columns
      [win |-> << TrialFile(TrialName(P1, "Serve", "win", <<"1", "0">>, "xls"), AB(4, 40)),
                  TrialFile(TrialName(P1, "Serve", "win", <<"1">>, "txt"), AB(7, 70)),
                  TrialFile(TrialName(P1, "serve", "w", <<"1">>, "xlsx"), AB(1, 10)),
                  TrialFile(TrialName(P1, "Serve", "win", <<"1">>, "xls"), AB(9, 90)),
                  TrialFile(TrialName(P1, "Serve", "win", <<"2">>, "xls"),
                            [cols |-> <<"Name", "Score">>, rows |-> << <<"A", 1>> >>]) >>],
      \* trials 1, 2 and 10 load, trial 2 reports one variable more
      [win |-> << TrialFile(TrialName(P1, "Serve", "win", <<"2">>, "xls"),
                            Table(<< <<"A", 2>>, <<"B", 20>>, <<"C", 1>> >>)),
                  TrialFile(TrialName(P1, "Serve", "win", <<"1", "0">>, "xls"), AB(4, 40)),
                  TrialFile(TrialName(P1, "Serve", "win", <<"1">>, "xls"), AB(1, 10)) >>],
      \* no trial 1 and no trial 2 among the .xls* files
      [win |-> << TrialFile(TrialName(P1, "Serve", "win", <<"1", "0">>, "xls"), AB(4, 40)),
                  TrialFile(TrialName(P1, "Serve", "win", <<"2">>, "txt"), AB(7, 70)) >>],
      \* no subfolder win
      [loss |-> << TrialFile(TrialName(P1, "Serve", "loss", <<"1">>, "xls"), AB(1, 10)) >>] }

TimelineRows == UNION {[1..k -> TimelineRowKinds] : k \in 0..MaxEvents}

InitTimeline ==
    /\ ExtractIdle
    /\ GatherIdle
    /\ RunIdle
    /\ \E folders \in TimelineFolders :
          \/ \E rows \in TimelineRows :
                tIn = [used |-> TRUE,
                       part |-> [name |-> P1, folders |-> folders],
                       condition |-> "Serve",
                       timeline_dir |-> [isDir |-> TRUE, files |-> <<TimelineFile(rows)>>]]
          \* no timeline file of the participant
          \/ tIn = [used |-> TRUE,
                    part |-> [name |-> P1, folders |-> folders],
                    condition |-> "Serve",
                    timeline_dir |-> [isDir |-> TRUE, files |-> <<>>]]
    /\ tOut = NoTimelineOutput

\* load_timeline(part_dir, timeline_dir, condition)
CallLoadTimeline ==
    /\ tIn.used
    /\ ~tOut.ids.called
    /\ tOut' = [tOut EXCEPT !.ids =
                  [called |-> TRUE,
                   res |-> load_timeline(tIn.part, tIn.timeline_dir, tIn.condition)]]
    /\ UNCHANGED <<extractVars, gatherVars, tIn, runVars, threadVars, guiVars>>

\* load_trial_series_from_id(part_dir, condition, trial_id) for an
\* identifier of the timeline.
CallLoadTrial ==
    /\ tIn.used
    /\ tOut.ids.called
    /\ tOut.ids.res.ok
    /\ ~tOut.means.called
    /\ ~tOut.trial.called
    /\ \E i \in 1..Len(tOut.ids.res.val) :
          tOut' = [tOut EXCEPT !.trial =
                     [called |-> TRUE,
                      row |-> i,
                      trial_id |-> tOut.ids.res.val[i],
                      outcome_str |-> outcome_str_of(tOut.ids.res.val[i]),
                      number_str |-> number_str_of(tOut.ids.res.val[i]),
                      res |-> load_trial_series_from_id(tIn.part, tIn.condition,
                                                        tOut.ids.res.val[i])]]
    /\ UNCHANGED <<extractVars, gatherVars, tIn, runVars, threadVars, guiVars>>

\* gather_means_timeline(part_dir, timeline_dir, condition, n)
CallGatherMeansTimeline ==
    /\ tIn.used
    /\ tOut.ids.called
    /\ ~tOut.means.called
    /\ ~tOut.trial.called
    /\ \E n \in 1..MaxN :
          tOut' = [tOut EXCEPT !.means =
                     [called |-> TRUE,
                      n |-> n,
                      res |-> gather_means_timeline(tIn.part, tIn.timeline_dir,
                                                    tIn.condition, n)]]
    /\ UNCHANGED <<extractVars, gatherVars, tIn, runVars, threadVars, guiVars>>

NextTimeline == CallLoadTimeline \/ CallLoadTrial \/ CallGatherMeansTimeline

SpecTimeline == InitTimeline /\ [][NextTimeline]_vars

-----------------------------------------------------------------------------
(* run_analysis *)

\* The names each copy binds at module level that the function uses.
Imports(impl) ==
    IF impl = "mono"
    THEN {"re", "pd", "np", "shapiro", "ttest_rel", "wilcoxon", "traceback"}
    ELSE {"re", "pd", "np", "shapiro", "ttest_rel", "wilcoxon"}

target_conditions == {"serve", "return"}

\* The names kept as they are written.
IsTarget_as_written(name) == name \in target_conditions

\* cond_dir.name.lower() in target_conditions
IsTarget(name) == Lower(name) \in target_conditions

\* A p-value: a number of thousandths, or NaN.
NaN == [nan |-> TRUE, pm |-> 0]

PValue(pm) == [nan |-> FALSE, pm |-> pm]

\* 0.05, in thousandths.
AlphaPerMille == 50

\* The comparison taken as >=.
ExceedsAlpha_inclusive(sh_p) == ~sh_p.nan /\ sh_p.pm >= AlphaPerMille

\* sh_p > 0.05, false of NaN.
ExceedsAlpha(sh_p) == ~sh_p.nan /\ sh_p.pm > AlphaPerMille

\* The p-values shapiro returns in the model: below, at and above 0.05.
ShapiroPerMille == {10, 50, 900}

\* _, sh_p = shapiro(diffs): the outcomes the call can have.  On fewer than
\* three values the SciPy releases differ: the call raises ValueError, or
\* returns NaN.  On three or more the p-value is any of the model's.
shapiro(diffs) ==
    IF Len(diffs) < 3
    THEN {Raise("ShapiroTooFewData"), Ok(NaN)}
    ELSE {Ok(PValue(pm)) : pm \in ShapiroPerMille}

\* diffs = a - b
Diffs(a, b) == [i \in 1..Len(a) |-> FSub(a[i], b[i])]

Zero == <<0, 1>>

\* What a paired test returns is the term that names the call.
Called(fn, a, b) == [fn |-> fn, a |-> a, b |-> b]

Literal(v) == [fn |-> "literal", val |-> v]

\* The rank test taken whatever the differences are.
AnyNonZero_always(diffs) == TRUE

\* np.any(diffs != 0)
AnyNonZero(diffs) == \E i \in 1..Len(diffs) : diffs[i] # Zero

\* The branch on sh_p: test_name and (stat, p).
ChooseTest(sh_p, a, b, diffs) ==
    IF ExceedsAlpha(sh_p)
    THEN [Test |-> "Paired t-test",
          Test_stat |-> Called("ttest_rel.statistic", a, b),
          p_value |-> Called("ttest_rel.pvalue", a, b)]
    ELSE IF AnyNonZero(diffs)
    THEN [Test |-> "Wilcoxon",
          Test_stat |-> Called("wilcoxon.statistic", a, b),
          p_value |-> Called("wilcoxon.pvalue", a, b)]
    ELSE [Test |-> "Wilcoxon", Test_stat |-> Literal(0), p_value |-> Literal(1)]

\* condition_label
ConditionLabel(p, cond) ==
    IF p.mode = "outcome" THEN <<cond, "(", p.outcome, ")">> ELSE <<cond>>

\* The row of one item of agg, given the p-value shapiro returned.
ResultRow(p, cond, item, sh_p) ==
    LET a == item.first
        b == item.last
        t == ChooseTest(sh_p, a, b, Diffs(a, b))
    IN  [Condition |-> ConditionLabel(p, cond),
         Variable |-> item.var,
         N |-> Len(a),
         Mean_First |-> FMean(a),
         Mean_Last |-> FMean(b),
         Shapiro_p |-> sh_p,
         Test |-> t.Test,
         Test_stat |-> t.Test_stat,
         p_value |-> t.p_value]

\* The entry of the variable written anew for every participant.
AddPair_overwrite(a, m) ==
    IF \E i \in 1..Len(a) : a[i].var = m.var
    THEN [i \in 1..Len(a) |->
            IF a[i].var = m.var
            THEN [a[i] EXCEPT !.first = <<m.first>>, !.last = <<m.last>>]
            ELSE a[i]]
    ELSE Append(a, [var |-> m.var, first |-> <<m.first>>, last |-> <<m.last>>])

\* agg.setdefault(var, ...); agg[var]["first"].append(m1); agg[var]["last"].append(m2)
AddPair(a, m) ==
    IF \E i \in 1..Len(a) : a[i].var = m.var
    THEN [i \in 1..Len(a) |->
            IF a[i].var = m.var
            THEN [a[i] EXCEPT !.first = Append(@, m.first), !.last = Append(@, m.last)]
            ELSE a[i]]
    ELSE Append(a, [var |-> m.var, first |-> <<m.first>>, last |-> <<m.last>>])

\* for var, (m1, m2) in means.items(): ...
RECURSIVE AddMeans(_, _)
AddMeans(a, means) ==
    IF Len(means) = 0 THEN a ELSE AddMeans(AddPair(a, means[1]), Tail(means))

\* The try statement's call, by mode.  The timeline directory is taken by
\* the files it holds for the participant.
GatherMeans(p, part, cond) ==
    IF p.mode = "timeline"
    THEN gather_means_timeline(part, [isDir |-> TRUE, files |-> part.timelines],
                               cond, p.n_trials)
    ELSE gather_means_outcome(part, cond, p.outcome, p.n_trials)

\* The messages handed to logger; at is the entry of the data root the
\* message was written for.
Message(kind, at, name, detail) ==
    [kind |-> kind, at |-> at, name |-> name, detail |-> detail]

\* The sink that puts the newest message first.
logger_newest_first(lg, msg) == <<msg>> \o lg

\* logger(message): the sink has the message when the call returns.
logger(lg, msg) == Append(lg, msg)

Raised(site, at) == [raised |-> TRUE, site |-> site, cls |-> ExcClass(site), at |-> at]

\* The body of the inner loop for one participant directory: the try
\* statement and its handlers.  The result is agg and log after it, and the
\* exception that leaves it.
HandleParticipant(impl, a, lg, at, part, means) ==
    IF means.ok
    THEN [agg |-> AddMeans(a, means.val), log |-> lg, exc |-> NoExc]
    ELSE IF means.cls \in {"FileNotFoundError", "ValueError"}
    THEN [agg |-> a,
          log |-> logger(lg, Message("Skipping", at, part.name, means.site)),
          exc |-> NoExc]
    ELSE LET first == logger(lg, Message("Unexpected", at, part.name, ""))
         IN  IF "traceback" \in Imports(impl)
             THEN [agg |-> a,
                   log |-> logger(first, Message("Traceback", at, part.name, means.site)),
                   exc |-> NoExc]
             ELSE [agg |-> a, log |-> first,
                   exc |-> Raised("TracebackNotImported", at)]

-----------------------------------------------------------------------------
(* Specification of run_analysis over bounded data roots.  The directories  *)
(* are read as the loops read them: each step of a loop takes the next       *)
(* entry iterdir() produces, and the listing ends when the loop ends.        *)

\* P<i>
PartName(i) == <<"P">> \o DecTokens(i)

\* Trial k of a participant.
RunFile(pname, cond, k, rows) ==
    TrialFile(TrialName(pname, cond, "win", DecTokens(k), "xls"), Table(rows))

RunListing(pname, cond, rowsOf) ==
    [j \in 1..(2 * MaxN) |->
        LET k == 2 * MaxN + 1 - j
        IN  RunFile(pname, cond, k, rowsOf[k])]

\* The directories a participant of the model can be: its name, whether it
\* is a directory, its subfolders, and the timeline files written for it.
\*   good      2 * MaxN trials with A and B, A growing with the participant
\*   flat      2 * MaxN trials with A only, the same value in each
\*   asym      2 * MaxN trials, B in the first MaxN only
\*   few       one trial
\*   nofolder  no subfolder of the outcome and no timeline
\*   file      a file among the participant directories
ParticipantKinds == {"good", "flat", "asym", "few", "nofolder", "file"}

Participant(kind, i, cond, outcome) ==
    LET pname == PartName(i)
        listing ==
            CASE kind = "good" ->
                    RunListing(pname, cond,
                               [k \in 1..(2 * MaxN) |-> << <<"A", k * i>>, <<"B", 10 * k>> >>])
              [] kind = "flat" ->
                    RunListing(pname, cond, [k \in 1..(2 * MaxN) |-> << <<"A", 5>> >>])
              [] kind = "asym" ->
                    RunListing(pname, cond,
                               [k \in 1..(2 * MaxN) |-> IF k <= MaxN
                                                THEN << <<"A", k>>, <<"B", 10 * k>> >>
                                                ELSE << <<"A", k>> >>])
              [] kind = "few" ->
                    <<RunFile(pname, cond, 1, << <<"A", 1>>, <<"B", 10>> >>)>>
              [] OTHER -> <<>>
    IN  [name |-> pname,
         isDir |-> kind # "file",
         folders |-> IF kind \in {"nofolder", "file"} THEN <<>> ELSE [win |-> listing],
         timelines |-> IF kind \in {"nofolder", "file"} THEN <<>>
                       ELSE <<TimelineOf(pname, "other", outcome, <<>>),
                              TimelineOf(pname, cond, outcome, listing)>>]

\* The entries of the data root: directories by name, and a file.
TopLevelDirs == {"serve", "Return", "misc"}

TopLevelFiles == {"readme"}

SeenNames == {seen[k].name : k \in 1..Len(seen)}

RECURSIVE SumLen(_)
SumLen(xss) == IF Len(xss) = 0 THEN 0 ELSE Len(xss[1]) + SumLen(Tail(xss))

InitRun ==
    /\ ExtractIdle
    /\ GatherIdle
    /\ TimelineIdle
    /\ params \in [used : {TRUE},
                   impl : {"mono", "core"},
                   mode : {"outcome", "timeline"},
                   outcome : {"Win"},
                   n_trials : 1..MaxN]
    /\ pc = "root"
    /\ cond_dir = ""
    /\ agg = <<>>
    /\ stat_i = 0
    /\ results = <<>>
    /\ log = <<>>
    /\ exc = NoExc
    /\ seen = <<>>
    /\ hist = <<>>
    /\ shapiro_calls = <<>>
    /\ results_df = NoTable
    /\ GuiIdle

\* for cond_dir in root_dir.iterdir(), an entry that is not a directory:
\* continue.
SkipTopLevelFile ==
    /\ pc = "root"
    /\ Len(seen) < MaxTopLevel
    /\ \E name \in TopLevelFiles \ SeenNames :
          /\ seen' = Append(seen, [name |-> name, isDir |-> FALSE])
          /\ hist' = Append(hist, <<>>)
    /\ UNCHANGED <<extractVars, gatherVars, timelineVars, threadVars, guiVars, params,
                   pc, cond_dir, agg, stat_i,
                   results, log, exc, shapiro_calls>>

\* A directory that is not a target condition: one message, continue.
IgnoreFolder ==
    /\ pc = "root"
    /\ Len(seen) < MaxTopLevel
    /\ \E name \in TopLevelDirs \ SeenNames :
          /\ ~IsTarget(name)
          /\ seen' = Append(seen, [name |-> name, isDir |-> TRUE])
          /\ hist' = Append(hist, <<>>)
          /\ log' = logger(log, Message("Ignoring", Len(seen) + 1, name, ""))
    /\ UNCHANGED <<extractVars, gatherVars, timelineVars, threadVars, guiVars, params,
                   pc, cond_dir, agg, stat_i,
                   results, exc, shapiro_calls>>

\* A target condition: condition, agg = {}, the message, and the inner loop
\* starts.
EnterCondition ==
    /\ pc = "root"
    /\ Len(seen) < MaxTopLevel
    /\ \E name \in TopLevelDirs \ SeenNames :
          /\ IsTarget(name)
          /\ seen' = Append(seen, [name |-> name, isDir |-> TRUE])
          /\ hist' = Append(hist, <<>>)
          /\ cond_dir' = name
          /\ log' = logger(log, Message("Processing", Len(seen) + 1, name, ""))
    /\ agg' = <<>>
    /\ pc' = "cond"
    /\ UNCHANGED <<extractVars, gatherVars, timelineVars, threadVars, guiVars, params,
                   stat_i, results, exc,
                   shapiro_calls>>

\* for part_dir in cond_dir.iterdir(), an entry that is not a directory:
\* continue.
SkipParticipantFile ==
    /\ pc = "cond"
    /\ SumLen(hist) < MaxParts
    /\ LET at == Len(seen)
           part == Participant("file", Len(hist[at]) + 1, cond_dir, params.outcome)
       IN  hist' = [hist EXCEPT ![at] =
                      Append(@, [name |-> part.name, isDir |-> FALSE, kind |-> "file"])]
    /\ UNCHANGED <<extractVars, gatherVars, timelineVars, threadVars, guiVars, params,
                   pc, cond_dir, agg, stat_i,
                   results, log, exc, seen, shapiro_calls>>

\* A participant directory: the try statement.
ProcessParticipant ==
    /\ pc = "cond"
    /\ SumLen(hist) < MaxParts
    /\ \E kind \in ParticipantKinds \ {"file"} :
          LET at == Len(seen)
              part == Participant(kind, Len(hist[at]) + 1, cond_dir, params.outcome)
              means == GatherMeans(params, part, cond_dir)
              after == HandleParticipant(params.impl, agg, log, at, part, means)
          IN  /\ hist' = [hist EXCEPT ![at] =
                            Append(@, [name |-> part.name, isDir |-> TRUE,
                                       kind |-> kind, res |-> means])]
              /\ agg' = after.agg
              /\ log' = after.log
              /\ exc' = after.exc
              /\ pc' = IF after.exc.raised THEN "raised" ELSE pc
    /\ UNCHANGED <<extractVars, gatherVars, timelineVars, threadVars, guiVars, params,
                   cond_dir, stat_i, results,
                   seen, shapiro_calls>>

\* The inner loop ends: for var, data in agg.items() starts.
EndParticipants ==
    /\ pc = "cond"
    /\ pc' = "stats"
    /\ stat_i' = 1
    /\ UNCHANGED <<extractVars, gatherVars, timelineVars, threadVars, guiVars, params,
                   cond_dir, agg, results, log,
                   exc, seen, hist, shapiro_calls>>

\* One item of agg: shapiro, the paired test, results.append.  No try
\* statement is around it: what shapiro raises leaves run_analysis.
TestVariable ==
    /\ pc = "stats"
    /\ stat_i <= Len(agg)
    /\ LET item == agg[stat_i]
           diffs == Diffs(item.first, item.last)
       IN  \E r \in shapiro(diffs) :
              IF r.ok
              THEN /\ shapiro_calls' = Append(shapiro_calls, [arg |-> diffs, p |-> r.val])
                   /\ results' = Append(results, ResultRow(params, cond_dir, item, r.val))
                   /\ stat_i' = stat_i + 1
                   /\ UNCHANGED <<pc, exc>>
              ELSE /\ exc' = Raised(r.site, Len(seen))
                   /\ pc' = "raised"
                   /\ UNCHANGED <<shapiro_calls, results, stat_i>>
    /\ UNCHANGED <<extractVars, gatherVars, timelineVars, threadVars, guiVars, params,
                   cond_dir, agg, log, seen, hist>>

\* agg.items() is exhausted: the outer loop goes on.
EndVariables ==
    /\ pc = "stats"
    /\ stat_i > Len(agg)
    /\ pc' = "root"
    /\ UNCHANGED <<extractVars, gatherVars, timelineVars, threadVars, guiVars, params,
                   cond_dir, agg, stat_i, results,
                   log, exc, seen, hist, shapiro_calls>>

\* root_dir.iterdir() is exhausted: return pd.DataFrame(results).
ReturnResults ==
    /\ pc = "root"
    /\ pc' = "returned"
    /\ UNCHANGED <<extractVars, gatherVars, timelineVars, threadVars, guiVars, params,
                   cond_dir, agg, stat_i, results,
                   log, exc, seen, hist, shapiro_calls>>

NextRun ==
    \/ SkipTopLevelFile
    \/ IgnoreFolder
    \/ EnterCondition
    \/ SkipParticipantFile
    \/ ProcessParticipant
    \/ EndParticipants
    \/ TestVariable
    \/ EndVariables
    \/ ReturnResults

SpecRun == InitRun /\ [][NextRun]_vars

-----------------------------------------------------------------------------
(* Specification of TrialAnalyzerApp._run_analysis_thread: the checks of    *)
(* the two directories, the call of run_analysis of LearningEffectAnalysis  *)
(* with self._log as its logger, and the handling of what it returns or     *)
(* raises                                                                    *)

\* A widget that keeps its state whatever configure is given.
configure_ignored(state, new) == state

\* widget.configure(state=new): the state of the widget after the call.
configure(state, new) == new

\* The directory that the checks find missing: the data root first.
SetupError_root_only(p) == IF ~p.root_is_dir THEN "ErrorDataRoot" ELSE "none"

\* if not params['data_root'].is_dir(): ...
\* if params['mode'] == 'timeline' and not params['timeline_dir'].is_dir(): ...
SetupError(p) ==
    IF ~p.root_is_dir THEN "ErrorDataRoot"
    ELSE IF p.mode = "timeline" /\ ~p.timeline_is_dir THEN "ErrorTimelineDir"
    ELSE "none"

\* A message of the thread: it is written for no entry of the data root.
ThreadMessage(kind) == Message(kind, 0, "", "")

\* start_analysis: self.results_df = None, the parameters packed, and the
\* thread started.  The call of run_analysis is that of the module itself.
InitThread ==
    /\ ExtractIdle
    /\ GatherIdle
    /\ TimelineIdle
    /\ params \in [used : {TRUE},
                   impl : {"mono"},
                   mode : {"outcome", "timeline"},
                   outcome : {"Win"},
                   n_trials : 1..MaxN,
                   root_is_dir : BOOLEAN,
                   timeline_is_dir : BOOLEAN]
    /\ pc = "thread"
    /\ cond_dir = ""
    /\ agg = <<>>
    /\ stat_i = 0
    /\ results = <<>>
    /\ log = <<>>
    /\ exc = NoExc
    /\ seen = <<>>
    /\ hist = <<>>
    /\ shapiro_calls = <<>>
    /\ results_df = NoTable
    /\ run_btn = "disabled"
    /\ export_btn = "disabled"
    /\ log_box = <<>>
    /\ inputs = [used |-> FALSE]
    /\ clicks = 0
    /\ workers = <<>>

\* A directory is missing: one message, return; finally: the Run button.
ThreadSetupFails ==
    /\ pc = "thread"
    /\ SetupError(params) # "none"
    /\ log' = logger(log, ThreadMessage(SetupError(params)))
    /\ run_btn' = configure(run_btn, "normal")
    /\ pc' = "thread_returned"
    /\ UNCHANGED <<extractVars, gatherVars, timelineVars, threadVars, export_btn,
                   log_box, inputs, clicks, workers, params,
                   cond_dir, agg, stat_i,
                   results, exc, seen, hist, shapiro_calls>>

\* self._log("Analysis started..."); run_analysis(params, logger=self._log)
ThreadCallsRunAnalysis ==
    /\ pc = "thread"
    /\ SetupError(params) = "none"
    /\ log' = logger(log, ThreadMessage("Started"))
    /\ pc' = "root"
    /\ UNCHANGED <<extractVars, gatherVars, timelineVars, threadVars, guiVars, params,
                   cond_dir, agg, stat_i,
                   results, exc, seen, hist, shapiro_calls>>

\* p < 0.05 of a row: false of the literal 1, either of what a test returned.
MayBeSignificant(row) == row.p_value.fn # "literal"

\* run_analysis returned: self.results_df = df, the summary, the Export
\* button when there are rows; finally: the Run button.
ThreadReportsResults ==
    /\ pc = "returned"
    /\ results_df' = [set |-> TRUE, rows |-> results]
    /\ \E summary \in
          IF Len(results) = 0 THEN {"NoData"}
          ELSE {"NoSignificant" : i \in {1}} \cup
               {"Significant" : i \in {k \in 1..Len(results) : MayBeSignificant(results[k])}} :
          log' = logger(logger(log, ThreadMessage("Complete")), ThreadMessage(summary))
    /\ export_btn' = IF Len(results) = 0 THEN export_btn
                      ELSE configure(export_btn, "normal")
    /\ run_btn' = configure(run_btn, "normal")
    /\ pc' = "thread_done"
    /\ UNCHANGED <<extractVars, gatherVars, timelineVars, log_box, inputs, clicks,
                   workers, params, cond_dir, agg, stat_i, results, exc, seen, hist,
                   shapiro_calls>>

\* except Exception: two messages, the second traceback.format_exc();
\* finally: the Run button.
ThreadCatches ==
    /\ pc = "raised"
    /\ log' = logger(logger(log, ThreadMessage("Critical")), ThreadMessage("Traceback"))
    /\ run_btn' = configure(run_btn, "normal")
    /\ pc' = "thread_caught"
    /\ UNCHANGED <<extractVars, gatherVars, timelineVars, threadVars, export_btn,
                   log_box, inputs, clicks, workers, params,
                   cond_dir, agg, stat_i,
                   results, exc, seen, hist, shapiro_calls>>

NextThread ==
    \/ ThreadSetupFails
    \/ ThreadCallsRunAnalysis
    \/ NextRun
    \/ ThreadReportsResults
    \/ ThreadCatches

SpecThread == InitThread /\ [][NextThread]_vars

-----------------------------------------------------------------------------
(* Specification of the window of TrialAnalyzerApp: the Run button, whose   *)
(* command is start_analysis, and the threads start_analysis starts, each   *)
(* running _run_analysis_thread with the params packed for it.  The event   *)
(* loop runs one callback at a time; the threads run beside it, a step of   *)
(* a thread being the statements between two points where another thread    *)
(* or a callback can be observed to run.  run_analysis is taken here by     *)
(* what its call leaves behind: the lines it logged and the table it        *)
(* returned, or the exception it raised.                                     *)

\* Most clicks on the Run button that call start_analysis.
MaxRuns == 2

\* What self.n_var.get() gives: the integer of the entry, or TclError when
\* the entry holds no integer.
NVarStates == [ok : {TRUE}, val : 1..MaxN] \cup {[ok |-> FALSE, val |-> 0]}

\* What the input widgets can hold at a click, with whether the two paths
\* are directories.
InputStates ==
    [used : {TRUE},
     mode : {"outcome", "timeline"},
     root_is_dir : BOOLEAN,
     timeline_is_dir : BOOLEAN,
     n_var : NVarStates]

\* params of start_analysis.
PackedParams(in) ==
    [used |-> TRUE,
     impl |-> "mono",
     mode |-> in.mode,
     outcome |-> "Win",
     n_trials |-> in.n_var.val,
     root_is_dir |-> in.root_is_dir,
     timeline_is_dir |-> in.timeline_is_dir]

\* What a call of run_analysis can leave: nothing logged and an empty table
\* (an empty data root), a condition with no row or with one row, its
\* p-value under 0.05 or not, and a raise out of the statistical stage.
RunOutcomes ==
    {[raised |-> FALSE, lines |-> <<>>, rows |-> <<>>],
     [raised |-> FALSE, lines |-> <<ThreadMessage("Processing")>>, rows |-> <<>>],
     [raised |-> FALSE, lines |-> <<ThreadMessage("Processing")>>,
      rows |-> <<[significant |-> FALSE]>>],
     [raised |-> FALSE, lines |-> <<ThreadMessage("Processing")>>,
      rows |-> <<[significant |-> TRUE]>>],
     [raised |-> TRUE, lines |-> <<ThreadMessage("Processing")>>, rows |-> <<>>]}

\* A CTkButton calls its command on a click unless its state is disabled.
Invokes(state) == state # "disabled"

\* The threads that have not run their last statement.
Running == {w \in 1..Len(workers) : workers[w].at # "done"}

\* The window after __init__: the mode is timeline, the paths are the
\* defaults and N is an integer.
InitGui ==
    /\ ExtractIdle
    /\ GatherIdle
    /\ TimelineIdle
    /\ params = NoParams
    /\ pc = "idle"
    /\ cond_dir = ""
    /\ agg = <<>>
    /\ stat_i = 0
    /\ results = <<>>
    /\ log = <<>>
    /\ exc = NoExc
    /\ seen = <<>>
    /\ hist = <<>>
    /\ shapiro_calls = <<>>
    /\ results_df = NoTable
    /\ run_btn = "normal"
    /\ export_btn = "disabled"
    /\ log_box = <<>>
    /\ inputs \in {in \in InputStates : in.mode = "timeline" /\ in.n_var.ok}
    /\ clicks = 0
    /\ workers = <<>>

\* A click on the Run button, with what the input widgets hold when it
\* comes: start_analysis.  self.n_var.get() raises when the entry holds no
\* integer, and the callback ends there, before the thread is made.  Of a thread, at is the statement it is at, path the way
\* it left the try statement and df its local df.
ClickRun ==
    /\ Invokes(run_btn)
    /\ clicks < MaxRuns
    /\ clicks' = clicks + 1
    /\ run_btn' = configure(run_btn, "disabled")
    /\ export_btn' = configure(export_btn, "disabled")
    /\ log_box' = <<>>
    /\ results_df' = NoTable
    /\ \E in \in InputStates :
          /\ inputs' = in
          /\ workers' = IF in.n_var.ok
                        THEN Append(workers, [params |-> PackedParams(in),
                                              at |-> "try", path |-> "none",
                                              df |-> NoTable])
                        ELSE workers
    /\ UNCHANGED <<extractVars, gatherVars, timelineVars, runVars>>

\* The two checks of _run_analysis_thread: a message and return, or
\* self._log("Analysis started...").
WorkerChecksSetup ==
    /\ \E w \in 1..Len(workers) :
          /\ workers[w].at = "try"
          /\ IF SetupError(workers[w].params) # "none"
             THEN /\ log_box' = logger(log_box,
                                       ThreadMessage(SetupError(workers[w].params)))
                  /\ workers' = [workers EXCEPT ![w].at = "finally",
                                                ![w].path = "setup"]
             ELSE /\ log_box' = logger(log_box, ThreadMessage("Started"))
                  /\ workers' = [workers EXCEPT ![w].at = "call"]
    /\ UNCHANGED <<extractVars, gatherVars, timelineVars, runVars, threadVars,
                   run_btn, export_btn, inputs, clicks>>

\* df = run_analysis(params, logger=self._log); self.results_df = df
WorkerRunsAnalysis ==
    /\ \E w \in 1..Len(workers) : \E out \in RunOutcomes :
          /\ workers[w].at = "call"
          /\ log_box' = log_box \o out.lines
          /\ IF out.raised
             THEN /\ workers' = [workers EXCEPT ![w].at = "except"]
                  /\ UNCHANGED results_df
             ELSE /\ workers' = [workers EXCEPT
                                    ![w].at = "report",
                                    ![w].df = [set |-> TRUE, rows |-> out.rows]]
                  /\ results_df' = [set |-> TRUE, rows |-> out.rows]
    /\ UNCHANGED <<extractVars, gatherVars, timelineVars, runVars, run_btn,
                   export_btn, inputs, clicks>>

\* The summary of df, the table this thread's call returned, and the
\* Export button when df has rows.
WorkerReports ==
    /\ \E w \in 1..Len(workers) :
          /\ workers[w].at = "report"
          /\ LET rows == workers[w].df.rows
                 summary == IF Len(rows) = 0 THEN "NoData"
                            ELSE IF \E i \in 1..Len(rows) : rows[i].significant
                            THEN "Significant" ELSE "NoSignificant"
             IN  /\ log_box' = logger(logger(log_box, ThreadMessage("Complete")),
                                      ThreadMessage(summary))
                 /\ export_btn' = IF Len(rows) = 0 THEN export_btn
                                  ELSE configure(export_btn, "normal")
          /\ workers' = [workers EXCEPT ![w].at = "finally", ![w].path = "success"]
    /\ UNCHANGED <<extractVars, gatherVars, timelineVars, runVars, threadVars,
                   run_btn, inputs, clicks>>

\* except Exception: two messages.
WorkerCatches ==
    /\ \E w \in 1..Len(workers) :
          /\ workers[w].at = "except"
          /\ log_box' = logger(logger(log_box, ThreadMessage("Critical")),
                               ThreadMessage("Traceback"))
          /\ workers' = [workers EXCEPT ![w].at = "finally", ![w].path = "exception"]
    /\ UNCHANGED <<extractVars, gatherVars, timelineVars, runVars, threadVars,
                   run_btn, export_btn, inputs, clicks>>

\* finally: self.run_btn.configure(state="normal"), the last statement of
\* the thread.
WorkerFinally ==
    /\ \E w \in 1..Len(workers) :
          /\ workers[w].at = "finally"
          /\ run_btn' = configure(run_btn, "normal")
          /\ workers' = [workers EXCEPT ![w].at = "done"]
    /\ UNCHANGED <<extractVars, gatherVars, timelineVars, runVars, threadVars,
                   export_btn, log_box, inputs, clicks>>

NextGui ==
    \/ ClickRun
    \/ WorkerChecksSetup
    \/ WorkerRunsAnalysis
    \/ WorkerReports
    \/ WorkerCatches
    \/ WorkerFinally

SpecGui == InitGui /\ [][NextGui]_vars

-----------------------------------------------------------------------------
(* Claims about extract_trial_number (SpecExtract) *)

\* The first index of the maximal run of digits that ends at j.
RECURSIVE RunStart(_, _)
RunStart(name, j) ==
    IF j > 1 /\ IsDigit(name[j - 1]) THEN RunStart(name, j - 1) ELSE j

\* The position of the "." that starts the extension, 0 if there is none.
LastDot(name) ==
    LET dots == {i \in 1..Len(name) : name[i] = "."}
    IN  IF dots = {} THEN 0 ELSE CHOOSE i \in dots : \A j \in dots : j <= i

\* The run of digits at the end of the stem, just before an extension that
\* starts with xls, as an integer; -1 if the name has no such run.
TrailingRun(name) ==
    LET e == LastDot(name)
    IN  IF /\ e > 1
           /\ e < Len(name)
           /\ StartsWithXls(name[e + 1])
           /\ IsDigit(name[e - 1])
        THEN IntOf(SubSeq(name, RunStart(name, e - 1), e - 1))
        ELSE NoMatch

\* C6: extract_trial_number returns the run of digits that ends the stem
\* just before an extension starting with xls (any letter case), and -1 for
\* a name without such a run, also when the stem holds an earlier
\* digits.xls fragment.
C6_ReturnsTrailingRun ==
    fnResult.done => fnResult.value = TrailingRun(fnName)

-----------------------------------------------------------------------------
(* Claims about gather_means_outcome and gather_means_timeline (SpecGather) *)

OutcomeRes == gOut.outcome.res

TimelineRes == gOut.timeline.res

FolderPresent == Lower(gIn.outcome) \in DOMAIN gIn.part.folders

FolderListing == gIn.part.folders[Lower(gIn.outcome)]

\* The numbered files of a listing: those extract_trial_number gives a
\* trial number.
Numbered(listing) ==
    SelectSeq(listing, LAMBDA f : extract_trial_number(f.name) # NoMatch)

\* The positions the files of a listing take when the listing is ordered by
\* trial number as an integer, files of one number in enumeration order.
Ranks(listing) ==
    CHOOSE rank \in
        { [i \in 1..Len(listing) |->
              Cardinality({j \in 1..Len(listing) :
                  key[j] < key[i] \/ (key[j] = key[i] /\ j < i)}) + 1] :
          key \in {[i \in 1..Len(listing) |-> extract_trial_number(listing[i].name)]} } :
        TRUE

\* The files of ranks lo..hi, by rank.
ByRank(listing, lo, hi) ==
    CHOOSE files \in
        { [r \in 1..(hi - lo + 1) |->
              listing[CHOOSE i \in 1..Len(listing) : rank[i] = lo + r - 1]] :
          rank \in {Ranks(listing)} } :
        TRUE

InNumericOrder(listing) ==
    \A rank \in {Ranks(listing)} : \A i \in 1..Len(listing) : rank[i] = i

Reports(f, var) ==
    \E r \in {load_series_from_file(f)} : \E i \in 1..Len(r.val) : r.val[i][1] = var

BlockReports(block, var) == \E i \in 1..Len(block) : Reports(block[i], var)

\* The series of each file of a block that loads.
SeriesOf(block) ==
    LET rs == [i \in 1..Len(block) |-> load_series_from_file(block[i])]
        ok == SelectSeq(rs, LAMBDA r : r.ok)
    IN  [i \in 1..Len(ok) |-> ok[i].val]

SeriesReports(sr, var) == \E i \in 1..Len(sr) : sr[i][1] = var

\* The arithmetic mean of a variable over the series that report it.
SeriesMean(srs, var) ==
    LET having == SelectSeq(srs, LAMBDA sr : SeriesReports(sr, var))
    IN  FMean([i \in 1..Len(having) |->
            <<having[i][CHOOSE k \in 1..Len(having[i]) : having[i][k][1] = var][2], 1>>])

\* Every pair of the result is over the two blocks, and every variable of
\* the first block has its pair.
PairsAreBlockMeans(res, first, last) ==
    \A fsr \in {SeriesOf(first)} : \A lsr \in {SeriesOf(last)} :
        /\ \A i \in 1..Len(res.val) :
              /\ \E k \in 1..Len(fsr) : SeriesReports(fsr[k], res.val[i].var)
              /\ res.val[i].first = SeriesMean(fsr, res.val[i].var)
              /\ res.val[i].last = SeriesMean(lsr, res.val[i].var)
        /\ \A var \in {"A", "B", "C"} :
              (\E k \in 1..Len(fsr) : SeriesReports(fsr[k], var)) =>
                  Cardinality({i \in 1..Len(res.val) : res.val[i].var = var}) = 1

\* The two blocks of a listing's numbered files: the N files of the smallest
\* and the N files of the largest trial numbers.
BlocksOf(listing, n) ==
    LET numbered == Numbered(listing)
    IN  [count |-> Len(numbered),
         first |-> IF Len(numbered) >= 2 * n THEN ByRank(numbered, 1, n) ELSE <<>>,
         last |-> IF Len(numbered) >= 2 * n
                  THEN ByRank(numbered, Len(numbered) - n + 1, Len(numbered))
                  ELSE <<>>]

\* C4, as the claim states it: with at least one numbered file in the
\* outcome subfolder, gather_means_outcome fails with the insufficient-data
\* failure exactly if fewer than 2N files are numbered, and otherwise
\* succeeds with each variable's means over the N files of the smallest and
\* the N files of the largest trial numbers.
C4_SucceedsFromTwoN ==
    (gOut.outcome.called /\ FolderPresent) =>
        \A blocks \in {BlocksOf(FolderListing, gIn.n)} :
            blocks.count >= 1 =>
                /\ (~OutcomeRes.ok /\ OutcomeRes.site = "TooFewFiles")
                      <=> blocks.count < 2 * gIn.n
                /\ blocks.count >= 2 * gIn.n =>
                      /\ OutcomeRes.ok
                      /\ PairsAreBlockMeans(OutcomeRes, blocks.first, blocks.last)

\* The result of loading the files of the two blocks, first block first: the
\* failure of the first file that does not load, if one does not.
LoadFailure(files) ==
    LET rs == SelectSeq([i \in 1..Len(files) |-> load_series_from_file(files[i])],
                        LAMBDA r : ~r.ok)
    IN  IF Len(rs) = 0 THEN Ok(<<>>) ELSE rs[1]

\* C4, amended: the insufficient-data failure is raised exactly if fewer
\* than 2N files are numbered; with 2N or more the call raises the load
\* failure of the first file of the two blocks that does not load, else the
\* key-lookup failure if a variable of the first block is in no file of the
\* last block, and else succeeds with, for each variable of the first block,
\* its mean over the files that report it among the N files of the smallest
\* trial numbers and among the N files of the largest, the files ordered by
\* trial number as an integer and files of one number in enumeration order.
C4_BlocksByTrialNumber ==
    (gOut.outcome.called /\ FolderPresent) =>
        \A blocks \in {BlocksOf(FolderListing, gIn.n)} :
            blocks.count >= 1 =>
                /\ (~OutcomeRes.ok /\ OutcomeRes.site = "TooFewFiles")
                      <=> blocks.count < 2 * gIn.n
                /\ blocks.count >= 2 * gIn.n =>
                      \A failure \in {LoadFailure(blocks.first \o blocks.last)} :
                          IF ~failure.ok THEN OutcomeRes = failure
                          ELSE IF \E var \in {"A", "B", "C"} :
                                    /\ BlockReports(blocks.first, var)
                                    /\ ~BlockReports(blocks.last, var)
                          THEN ~OutcomeRes.ok /\ OutcomeRes.cls = "KeyError"
                          ELSE /\ OutcomeRes.ok
                               /\ PairsAreBlockMeans(OutcomeRes, blocks.first, blocks.last)

\* C4's case: a successful call with a file between the two blocks, on a
\* listing that is not in the order of its trial numbers.
C4_Witness ==
    /\ gOut.outcome.called
    /\ FolderPresent
    /\ OutcomeRes.ok
    /\ Len(OutcomeRes.val) > 0
    /\ Len(Numbered(FolderListing)) > 2 * gIn.n
    /\ ~InNumericOrder(Numbered(FolderListing))

\* The files of a listing whose stem ends in a run of digits right before
\* an extension that starts with xls.
TrailingNumbered(listing) ==
    SelectSeq(listing, LAMBDA f : TrailingRun(f.name) # NoMatch)

\* C5: gather_means_outcome raises the not-found failure, whatever N, when
\* the participant has no subfolder of the lowercased outcome's name or the
\* subfolder holds no file with a trailing trial number; files without a
\* trailing number are filtered out without error and do not count toward
\* 2N; with no file left the not-found failure wins over the
\* insufficient-data failure.
C5_NotFoundFirst ==
    gOut.outcome.called =>
        /\ ~FolderPresent =>
              ~OutcomeRes.ok /\ OutcomeRes.site = "OutcomeFolderNotFound"
                             /\ OutcomeRes.cls = "FileNotFoundError"
        /\ (FolderPresent /\ Len(TrailingNumbered(FolderListing)) = 0) =>
              ~OutcomeRes.ok /\ OutcomeRes.site = "NoValidFiles"
                             /\ OutcomeRes.cls = "FileNotFoundError"
        /\ FolderPresent =>
              /\ (~OutcomeRes.ok /\ OutcomeRes.site = "TooFewFiles")
                    <=> (0 < Len(TrailingNumbered(FolderListing))
                            /\ Len(TrailingNumbered(FolderListing)) < 2 * gIn.n)
              /\ OutcomeRes =
                    gather_means_outcome(
                        [gIn.part EXCEPT !.folders[Lower(gIn.outcome)] =
                            TrailingNumbered(@)],
                        gIn.condition, gIn.outcome, gIn.n)

BothCalled == gOut.outcome.called /\ gOut.timeline.called

\* C7, as the claim states it: on a timeline that lists exactly the numbered
\* trial files of the outcome subfolder in the order of their numeric sort,
\* gather_means_timeline and gather_means_outcome both succeed or both fail,
\* and return the same pairs when they succeed.
C7_ModesAgree ==
    (BothCalled /\ FolderPresent) =>
        /\ OutcomeRes.ok <=> TimelineRes.ok
        /\ OutcomeRes.ok => OutcomeRes.val = TimelineRes.val

\* The two prefixes load_trial_series_from_id looks for trial k of outcome
\* category o.
SchemePrefixes(pname, condition, o, k) ==
    { LowerName(pname \o <<"_", condition, "_", o>> \o DecTokens(k) \o <<".">>),
      LowerName(pname \o <<"_", condition, "_", FirstLetter(Lower(o))>>
                    \o DecTokens(k) \o <<".">>) }

HasSchemePrefix(f, k) ==
    \E pre \in SchemePrefixes(gIn.part.name, gIn.condition, gIn.outcome, k) :
        StartsWith(LowerName(f.name), pre)

\* Every numbered file is named <participant>_<condition>_<outcome or its
\* first letter><k>. for its trial number k in decimal without leading
\* zeros, and no other .xls* file of the subfolder starts like that.
NamedByScheme(listing) ==
    \A i \in 1..Len(listing) :
        extract_trial_number(listing[i].name) # NoMatch =>
            /\ HasSchemePrefix(listing[i], extract_trial_number(listing[i].name))
            /\ \A j \in 1..Len(listing) :
                  (j # i /\ GlobXls(listing[j].name)) =>
                      ~HasSchemePrefix(listing[j], extract_trial_number(listing[i].name))

\* C7, amended: the two modes agree when, in addition, every numbered file
\* of the subfolder is named by the scheme of load_trial_series_from_id with
\* its trial number written without leading zeros, and no other .xls* file
\* of the subfolder starts with the same prefix.
C7_ModesAgreeOnSchemeNames ==
    (BothCalled /\ FolderPresent /\ NamedByScheme(FolderListing)) =>
        /\ OutcomeRes.ok <=> TimelineRes.ok
        /\ OutcomeRes.ok => OutcomeRes.val = TimelineRes.val

\* C7's case: both modes succeed on scheme-named files that the directory
\* does not enumerate in the order of their trial numbers.
C7_Witness ==
    /\ BothCalled
    /\ FolderPresent
    /\ NamedByScheme(FolderListing)
    /\ OutcomeRes.ok
    /\ TimelineRes.ok
    /\ Len(OutcomeRes.val) > 0
    /\ ~InNumericOrder(Numbered(FolderListing))

-----------------------------------------------------------------------------
(* Claims about run_analysis (SpecRun) *)

\* The name equals serve or return when letter case is ignored.
NamesTarget(name) == Lower(name) \in {"serve", "return"}

\* The participants of entry k of the data root whose aggregation
\* succeeded, and those among them that reported a variable.
Succeeded(k) == SelectSeq(hist[k], LAMBDA e : e.isDir /\ e.res.ok)

ReportsVar(e, var) == \E i \in 1..Len(e.res.val) : e.res.val[i].var = var

Reporting(k, var) == SelectSeq(Succeeded(k), LAMBDA e : ReportsVar(e, var))

PairOf(e, var) == e.res.val[CHOOSE i \in 1..Len(e.res.val) : e.res.val[i].var = var]

FirstMeans(k, var) ==
    LET es == Reporting(k, var) IN [j \in 1..Len(es) |-> PairOf(es[j], var).first]

LastMeans(k, var) ==
    LET es == Reporting(k, var) IN [j \in 1..Len(es) |-> PairOf(es[j], var).last]

RunVariables == {"A", "B"}

\* The second loop is over for entry k of the data root.
StageOver(k) == k < Len(seen) \/ pc \in {"root", "returned", "raised"}

\* The rows run_analysis hands to its caller: none when it raises.
Emitted == IF pc = "raised" THEN <<>> ELSE results

\* A row of entry k for a variable with the figures of its contributors.
RowOfContributors(row, k, var) ==
    /\ row.Condition[1] = seen[k].name
    /\ row.Variable = var
    /\ row.N = Len(Reporting(k, var))
    /\ row.Mean_First = FMean(FirstMeans(k, var))
    /\ row.Mean_Last = FMean(LastMeans(k, var))

\* A participant whose aggregation raised a not-found or an
\* insufficient-data failure.
SkippedAsExpected(e) ==
    /\ e.isDir
    /\ ~e.res.ok
    /\ e.res.site \in {"OutcomeFolderNotFound", "NoValidFiles", "NoTimelineFile",
                       "SubfolderNotFound", "NoMatchingFile", "TooFewFiles",
                       "TooFewEvents"}

\* A participant whose aggregation raised a failure of another kind.
FailedUnexpectedly(e) ==
    e.isDir /\ ~e.res.ok /\ e.res.cls \notin {"FileNotFoundError", "ValueError"}

Logged(kind, k, name) ==
    \E i \in 1..Len(log) : log[i].kind = kind /\ log[i].at = k /\ log[i].name = name

\* C1: a participant whose aggregation fails with a not-found or an
\* insufficient-data failure is logged and skipped and the run continues:
\* once the condition's stage is over, every variable of every other
\* participant of the condition that aggregated successfully has its row in
\* the rows run_analysis hands back, counting that participant.
C1_OthersStillContribute ==
    params.used =>
        \A k \in 1..Len(seen) : \A j \in 1..Len(hist[k]) :
            SkippedAsExpected(hist[k][j]) =>
                /\ Logged("Skipping", k, hist[k][j].name)
                /\ StageOver(k) =>
                      \A var \in RunVariables :
                          Len(Reporting(k, var)) > 0 =>
                              \E i \in 1..Len(Emitted) :
                                  /\ Emitted[i].Condition[1] = seen[k].name
                                  /\ Emitted[i].Variable = var
                                  /\ Emitted[i].N = Len(Reporting(k, var))

\* C2: in both copies, a participant whose aggregation raises a failure of
\* an unexpected kind is logged with the detail of the failure and skipped,
\* and the failure does not leave run_analysis.
C2_UnexpectedFailureIsLocal ==
    params.used =>
        \A k \in 1..Len(seen) : \A j \in 1..Len(hist[k]) :
            FailedUnexpectedly(hist[k][j]) =>
                /\ Logged("Unexpected", k, hist[k][j].name)
                /\ Logged("Traceback", k, hist[k][j].name)
                /\ ~(exc.raised /\ exc.at = k /\ exc.site = "TracebackNotImported")

\* C3: nothing leaves run_analysis once the data root exists: whatever the
\* directories hold, and whatever the statistical stage of a condition does,
\* the call does not raise.
C3_NothingPropagates == params.used => ~exc.raised

\* C8: for every condition whose stage is over and every variable at least
\* one of its participants contributed, the rows run_analysis hands back
\* hold a row of that condition and variable whose N is the number of the
\* condition's participants that aggregated successfully and reported the
\* variable, and whose Mean_First and Mean_Last are the arithmetic means of
\* their first-block and last-block means.
C8_RowPerContributedVariable ==
    params.used =>
        \A k \in 1..Len(seen) : \A var \in RunVariables :
            (StageOver(k) /\ Len(Reporting(k, var)) > 0) =>
                \E i \in 1..Len(Emitted) : RowOfContributors(Emitted[i], k, var)

\* C9: a directory of the data root whose name is not serve or return,
\* letter case ignored, is ignored: none of its entries is read, no row
\* names it, exactly one message is logged for it, and nothing is raised
\* while it is handled; a directory named serve or return in any letter
\* case is processed: the message that its processing starts is logged,
\* and not the message of an ignored directory.
C9_NonTargetIgnored ==
    params.used =>
        \A k \in 1..Len(seen) :
            seen[k].isDir =>
                IF ~NamesTarget(seen[k].name)
                THEN /\ hist[k] = <<>>
                     /\ \A i \in 1..Len(results) : results[i].Condition[1] # seen[k].name
                     /\ Cardinality({i \in 1..Len(log) : log[i].at = k}) = 1
                     /\ Logged("Ignoring", k, seen[k].name)
                     /\ ~(exc.raised /\ exc.at = k)
                ELSE /\ Logged("Processing", k, seen[k].name)
                     /\ ~Logged("Ignoring", k, seen[k].name)

\* C9's case: the run has returned rows after it ignored one directory and
\* processed one whose name is not written in lower case.
C9_Witness ==
    /\ params.used
    /\ pc = "returned"
    /\ Len(results) > 0
    /\ \E k \in 1..Len(seen) : seen[k].isDir /\ ~NamesTarget(seen[k].name)
    /\ \E k \in 1..Len(seen) :
          /\ seen[k].isDir
          /\ NamesTarget(seen[k].name)
          /\ seen[k].name # Lower(seen[k].name)
          /\ Len(Succeeded(k)) > 0

\* C10: every row's Test is Paired t-test exactly if the p-value shapiro
\* returned for the differences, first minus last, of the row's contributors
\* exceeds 0.05, and Wilcoxon otherwise, a p-value of 0.05 and NaN
\* included; the row's Shapiro_p is that p-value.
C10_TestByNormality ==
    params.used =>
        /\ Len(shapiro_calls) = Len(results)
        /\ \A i \in 1..Len(results) :
              LET row == results[i]
                  k == CHOOSE k \in 1..Len(seen) : seen[k].name = row.Condition[1]
                  a == FirstMeans(k, row.Variable)
                  b == LastMeans(k, row.Variable)
                  p == shapiro_calls[i].p
              IN  /\ shapiro_calls[i].arg = [j \in 1..Len(a) |-> FSub(a[j], b[j])]
                  /\ row.Shapiro_p = p
                  /\ row.Test \in {"Paired t-test", "Wilcoxon"}
                  /\ row.Test = "Paired t-test" <=> (~p.nan /\ p.pm > 50)

\* C10's case: one row took the paired t-test, one took Wilcoxon on a
\* p-value of exactly 0.05, and the differences are not all zero.
C10_Witness ==
    /\ params.used
    /\ \E i, j \in 1..Len(results) :
          /\ results[i].Test = "Paired t-test"
          /\ results[j].Test = "Wilcoxon"
          /\ results[j].Shapiro_p = [nan |-> FALSE, pm |-> 50]
          /\ \E d \in 1..Len(shapiro_calls[i].arg) : shapiro_calls[i].arg[d] # <<0, 1>>

\* The differences shapiro was given for row i are all zero.
AllZero(i) == \A d \in 1..Len(shapiro_calls[i].arg) : shapiro_calls[i].arg[d] = <<0, 1>>

\* The p-value shapiro returned for row i is not above 0.05.
NormalityFails(i) == shapiro_calls[i].p.nan \/ shapiro_calls[i].p.pm <= 50

\* The row holds what a call of the rank test returned.
RankTestInvoked(row) ==
    \/ row.Test_stat.fn \in {"wilcoxon.statistic", "wilcoxon.pvalue"}
    \/ row.p_value.fn \in {"wilcoxon.statistic", "wilcoxon.pvalue"}

\* C11: the row of a variable whose differences are all zero and whose
\* p-value of shapiro is not above 0.05 has Test Wilcoxon, statistic 0 and
\* p-value 1, written without a call of the rank test; on the
\* non-parametric path the rank test is called exactly if a difference is
\* not zero, and on the parametric path it is not called.
C11_ZeroDifferencesSkipRankTest ==
    params.used =>
        \A i \in 1..Len(results) :
            /\ (AllZero(i) /\ NormalityFails(i)) =>
                  /\ results[i].Test = "Wilcoxon"
                  /\ results[i].Test_stat = [fn |-> "literal", val |-> 0]
                  /\ results[i].p_value = [fn |-> "literal", val |-> 1]
                  /\ ~RankTestInvoked(results[i])
            /\ NormalityFails(i) => (RankTestInvoked(results[i]) <=> ~AllZero(i))
            /\ ~NormalityFails(i) => ~RankTestInvoked(results[i])

\* C11's case: three participants with no difference in a variable whose
\* p-value is a number not above 0.05, and the run has returned its row.
C11_Witness ==
    /\ params.used
    /\ pc = "returned"
    /\ \E i \in 1..Len(results) :
          /\ AllZero(i)
          /\ NormalityFails(i)
          /\ ~shapiro_calls[i].p.nan
          /\ results[i].N >= 3

\* The entry of the data root agg belongs to: the last target condition
\* the outer loop entered, 0 before the first.
AggEntry ==
    LET ks == {k \in 1..Len(seen) : seen[k].isDir /\ NamesTarget(seen[k].name)}
    IN  IF ks = {} THEN 0 ELSE CHOOSE k \in ks : \A j \in ks : j <= k

AggVars == {agg[i].var : i \in 1..Len(agg)}

\* C12: after any sequence of succeeding and failing participants, every
\* variable of agg has first and last of one length, the number of
\* participants of the condition that contributed the variable so far, and
\* element i of both is the pair of the i-th of them; agg holds each
\* contributed variable once and no other.
C12_AggregateAligned ==
    params.used =>
        \A k \in {AggEntry} :
            IF k = 0 THEN agg = <<>>
            ELSE /\ \A i \in 1..Len(agg) :
                      /\ Len(agg[i].first) = Len(agg[i].last)
                      /\ Len(agg[i].first) = Len(Reporting(k, agg[i].var))
                      /\ Len(agg[i].first) > 0
                      /\ agg[i].first = FirstMeans(k, agg[i].var)
                      /\ agg[i].last = LastMeans(k, agg[i].var)
                      /\ \A j \in 1..Len(agg) : agg[j].var = agg[i].var => j = i
                 /\ \A var \in RunVariables :
                      Len(Reporting(k, var)) > 0 => var \in AggVars

\* C12's case: in one condition a participant was skipped and two
\* contributed, one of them a variable the other did not report.
C12_Witness ==
    /\ params.used
    /\ pc = "cond"
    /\ \E j \in 1..Len(hist[Len(seen)]) : SkippedAsExpected(hist[Len(seen)][j])
    /\ \E i, j \in 1..Len(agg) :
          /\ Len(agg[i].first) = 2
          /\ Len(agg[j].first) = 1
          /\ agg[i].first[1] # agg[i].first[2]

\* The results of loading, in outcome mode, the files of the two blocks.
OutcomeBlockLoads ==
    LET blocks == BlocksOf(FolderListing, gIn.n)
        files == blocks.first \o blocks.last
    IN  [i \in 1..Len(files) |-> load_series_from_file(files[i])]

\* The results of loading, in timeline mode, the trials of the two blocks:
\* none if the timeline is not read or lists fewer than 2N trials.
TimelineBlockLoads ==
    LET timeline == load_timeline(gIn.part, gIn.timeline_dir, gIn.condition)
    IN  IF ~timeline.ok \/ Len(timeline.val) < 2 * gIn.n THEN <<>>
        ELSE LET ids == SubSeq(timeline.val, 1, gIn.n)
                           \o SubSeq(timeline.val, Len(timeline.val) - gIn.n + 1,
                                     Len(timeline.val))
             IN  [i \in 1..Len(ids) |->
                    load_trial_series_from_id(gIn.part, gIn.condition, ids[i])]

SomeLoadFails(loads) == \E i \in 1..Len(loads) : ~loads[i].ok

\* Aggregates a condition can have when a participant is handled.
SampleAggs ==
    { <<>>,
      <<[var |-> "A", first |-> <<<<1, 1>>>>, last |-> <<<<2, 1>>>>]>>,
      <<[var |-> "B", first |-> <<<<1, 1>>, <<3, 1>>>>, last |-> <<<<2, 1>>, <<4, 1>>>>],
        [var |-> "A", first |-> <<<<1, 1>>>>, last |-> <<<<2, 1>>>>]>> }

LenOfVar(a, var, side) ==
    IF \E i \in 1..Len(a) : a[i].var = var
    THEN Len((a[CHOOSE i \in 1..Len(a) : a[i].var = var])[side])
    ELSE 0

\* What the participant appends to an aggregate: nothing when a load of
\* either block failed, and otherwise one pair to every variable of its
\* result, in both copies.
AppendsAllOrNothing(res, loads) ==
    \A impl \in {"mono", "core"} : \A a \in SampleAggs :
        \A after \in {HandleParticipant(impl, a, <<>>, 1, gIn.part, res)} :
            /\ SomeLoadFails(loads) => (~res.ok /\ after.agg = a)
            /\ \/ after.agg = a
               \/ /\ res.ok
                  /\ \A var \in {"A", "B", "C"} : \A side \in {"first", "last"} :
                        LenOfVar(after.agg, var, side) =
                            LenOfVar(a, var, side)
                              + (IF \E i \in 1..Len(res.val) : res.val[i].var = var
                                 THEN 1 ELSE 0)

\* C13: when loading a trial of the first or of the last block of a
\* participant fails, at any position of the block, the aggregation of the
\* participant raises and run_analysis appends nothing for it to agg; a
\* participant appends one (first, last) pair for every variable of its
\* result, or nothing at all.
C13_NoPartialBlockMeans ==
    /\ (gOut.outcome.called /\ FolderPresent) =>
          AppendsAllOrNothing(OutcomeRes, OutcomeBlockLoads)
    /\ gOut.timeline.called => AppendsAllOrNothing(TimelineRes, TimelineBlockLoads)

\* C13's case: with blocks of two trials, the second trial of the last
\* block is the only one that does not load, in both modes.
C13_Witness ==
    /\ gOut.timeline.called
    /\ FolderPresent
    /\ gIn.n = 2
    /\ \A loads \in {OutcomeBlockLoads, TimelineBlockLoads} :
          /\ Len(loads) = 4
          /\ \A i \in 1..3 : loads[i].ok
          /\ ~loads[4].ok

\* The variables of the records among loads lo..hi.
VarsOfLoads(loads, lo, hi) ==
    {v \in {"A", "B", "C"} :
        \E i \in lo..hi : \E r \in 1..Len(loads[i].val) : loads[i].val[r][1] = v}

VarsOfResult(res) == {res.val[i].var : i \in 1..Len(res.val)}

\* The variables of a successful aggregation are those of the records of
\* its first block, and an aggregation whose trials all load and whose
\* first-block variables are all in the last block succeeds, whatever else
\* the last block holds.
ReportsFirstBlockVariables(res, loads) ==
    Len(loads) = 2 * gIn.n =>
        /\ res.ok =>
              /\ VarsOfResult(res) = VarsOfLoads(loads, 1, gIn.n)
              /\ \A i, j \in 1..Len(res.val) : res.val[i].var = res.val[j].var => i = j
        /\ ( /\ ~SomeLoadFails(loads)
             /\ VarsOfLoads(loads, 1, gIn.n) \subseteq
                    VarsOfLoads(loads, gIn.n + 1, 2 * gIn.n) ) => res.ok

\* C14: the variables a participant reports are the variables of the
\* records of its first block: a variable of the last block that no record
\* of the first block has is dropped without a failure, and the
\* participant still reports every variable of its first block.
C14_VariablesOfFirstBlock ==
    /\ (gOut.outcome.called /\ FolderPresent) =>
          ReportsFirstBlockVariables(OutcomeRes, OutcomeBlockLoads)
    /\ gOut.timeline.called =>
          ReportsFirstBlockVariables(TimelineRes, TimelineBlockLoads)

\* C14's case: both modes succeed with the variables A and B of the first
\* block while a record of the last block also has C.
C14_Witness ==
    /\ gOut.timeline.called
    /\ FolderPresent
    /\ OutcomeRes.ok
    /\ TimelineRes.ok
    /\ \A loads \in {OutcomeBlockLoads, TimelineBlockLoads} :
          /\ Len(loads) = 2 * gIn.n
          /\ "C" \in VarsOfLoads(loads, gIn.n + 1, 2 * gIn.n)
          /\ "C" \notin VarsOfLoads(loads, 1, gIn.n)
    /\ VarsOfResult(OutcomeRes) = {"A", "B"}
    /\ VarsOfResult(TimelineRes) = {"A", "B"}

-----------------------------------------------------------------------------
(* Claims about _run_analysis_thread (SpecThread) *)

\* The thread of the presentation layer runs and a directory it needs is
\* missing.
SetupFailure ==
    /\ "root_is_dir" \in DOMAIN params
    /\ \/ ~params.root_is_dir
       \/ params.mode = "timeline" /\ ~params.timeline_is_dir

\* C15: when the data root is missing, or in timeline mode the timeline
\* directory, the thread logs the failure and nothing else, reads no entry
\* of the data root and no participant, logs no message of a participant,
\* leaves self.results_df unset and ends without an exception.
C15_SetupFailureReportedOnce ==
    (params.used /\ SetupFailure /\ pc # "thread") =>
        /\ pc = "thread_returned"
        /\ Len(log) = 1
        /\ log[1].kind = (IF ~params.root_is_dir THEN "ErrorDataRoot"
                          ELSE "ErrorTimelineDir")
        /\ seen = <<>>
        /\ hist = <<>>
        /\ results = <<>>
        /\ results_df = [set |-> FALSE]
        /\ ~exc.raised

\* C15's case: in timeline mode the data root is there, the timeline
\* directory is not, and the thread has returned.
C15_Witness ==
    /\ params.used
    /\ SetupFailure
    /\ params.mode = "timeline"
    /\ params.root_is_dir
    /\ pc = "thread_returned"

-----------------------------------------------------------------------------
(* Further claims about run_analysis (SpecRun) *)

\* The messages written for entry k of the data root that name a
\* participant that was skipped, in the order the sink has them.
SkipMessages(k) ==
    SelectSeq(log, LAMBDA m : m.at = k /\ m.kind \in {"Skipping", "Unexpected"})

\* The participants of entry k whose aggregation raised, in the order the
\* inner loop took them.
Failed(k) == SelectSeq(hist[k], LAMBDA e : e.isDir /\ ~e.res.ok)

\* C16: the sink has every message as soon as it is generated and in the
\* order of generation: at every point the messages of a condition come
\* after those of the conditions before it, the Processing Condition
\* message of a condition is the first of its messages, and the messages of
\* its skipped participants are there for every participant skipped so far,
\* one each, in the order the participants were taken.
C16_LogInGenerationOrder ==
    params.used =>
        /\ \A i, j \in 1..Len(log) : i < j => log[i].at <= log[j].at
        /\ \A k \in 1..Len(seen) :
              (seen[k].isDir /\ NamesTarget(seen[k].name)) =>
                  /\ \E i \in 1..Len(log) :
                        /\ log[i].kind = "Processing"
                        /\ log[i].at = k
                        /\ log[i].name = seen[k].name
                        /\ \A j \in 1..Len(log) : log[j].at = k => i <= j
                  /\ \A skips \in {SkipMessages(k)} : \A failed \in {Failed(k)} :
                        /\ Len(skips) = Len(failed)
                        /\ \A i \in 1..Len(skips) : skips[i].name = failed[i].name
        /\ \A i \in 1..Len(log) :
              log[i].kind = "Traceback" =>
                  /\ i > 1
                  /\ log[i - 1].kind = "Unexpected"
                  /\ log[i - 1].name = log[i].name

\* C16's case: two conditions were processed, two participants of the
\* first were skipped and one of the second.
C16_Witness ==
    /\ params.used
    /\ Len(seen) = 2
    /\ Len(SkipMessages(1)) = 2
    /\ Len(SkipMessages(2)) = 1

\* What the inner loop of a copy makes of agg and log, and what it raises,
\* when it takes participant e of entry k.
StepOf(impl, k, e) == HandleParticipant(impl, agg, log, k, e, e.res)

\* C17: the two copies are one pipeline: from the same aggregate and the
\* same messages, on the same participant with the same result of its
\* aggregation, the try statement of LearningEffectAnalysis.py and that of
\* analysis_core.py leave the same aggregate and the same messages, and one
\* raises only if the other does; the rest of the two functions is the
\* same text, so the two runs then return the same rows and log the same
\* messages.
C17_CopiesAgree ==
    params.used =>
        \A k \in 1..Len(seen) : \A j \in 1..Len(hist[k]) :
            hist[k][j].isDir =>
                StepOf("mono", k, hist[k][j]) = StepOf("core", k, hist[k][j])

-----------------------------------------------------------------------------
(* Claims about the timeline functions (SpecTimeline) *)

\* The rows of the participant's timeline file.
RowsOfTimeline ==
    IF Len(tIn.timeline_dir.files) = 0 THEN <<>> ELSE tIn.timeline_dir.files[1].rows

\* A cell without the white space around it.
Trimmed(cell) == SelectSeq(cell, LAMBDA t : t # " ")

\* The identifier of a row: its type in lower case, then its trial.
IdOfRow(row) == LowerName(Trimmed(row[1])) \o Trimmed(row[2])

\* The series of the trials at positions lo..hi of a timeline.
SeriesAt(ids, lo, hi) ==
    [i \in 1..(hi - lo + 1) |->
        load_trial_series_from_id(tIn.part, tIn.condition, ids[lo + i - 1]).val]

\* C18: gather_means_timeline, on a timeline that is read, raises the
\* insufficient-data failure exactly if the timeline has fewer than 2N
\* events; the events are the rows of the timeline file in row order; when
\* it succeeds it reports the variables of the first N events with their
\* means over the first N and over the last N events, N events each, and
\* no position of the timeline is in both blocks.
C18_TimelineBlocks ==
    (tOut.means.called /\ tOut.ids.res.ok) =>
        \A ids \in {tOut.ids.res.val} : \A n \in {tOut.means.n} :
        \A res \in {tOut.means.res} :
            /\ ids = [i \in 1..Len(RowsOfTimeline) |-> IdOfRow(RowsOfTimeline[i])]
            /\ (~res.ok /\ res.site = "TooFewEvents") <=> Len(ids) < 2 * n
            /\ res.ok =>
                  /\ Len(ids) >= 2 * n
                  /\ (1..n) \cap ((Len(ids) - n + 1)..Len(ids)) = {}
                  /\ \A i \in (1..n) \cup ((Len(ids) - n + 1)..Len(ids)) :
                        load_trial_series_from_id(tIn.part, tIn.condition, ids[i]).ok
                  /\ \A fsr \in {SeriesAt(ids, 1, n)} :
                     \A lsr \in {SeriesAt(ids, Len(ids) - n + 1, Len(ids))} :
                        /\ Len(fsr) = n
                        /\ Len(lsr) = n
                        /\ \A v \in {"A", "B", "C"} :
                              (\E k \in 1..n : SeriesReports(fsr[k], v))
                                 <=> (\E i \in 1..Len(res.val) : res.val[i].var = v)
                        /\ \A i \in 1..Len(res.val) :
                              /\ res.val[i].first = SeriesMean(fsr, res.val[i].var)
                              /\ res.val[i].last = SeriesMean(lsr, res.val[i].var)

\* C18's case: blocks of two events of a timeline of four that does not
\* list its trials by number, with different means in the two blocks.
C18_Witness ==
    /\ tOut.means.called
    /\ tOut.means.res.ok
    /\ tOut.means.n = 2
    /\ Len(tOut.ids.res.val) = 4
    /\ tOut.ids.res.val[1] = <<"win", "1", "0">>
    /\ tOut.ids.res.val[4] = <<"win", "1">>
    /\ \E i \in 1..Len(tOut.means.res.val) :
          tOut.means.res.val[i].first # tOut.means.res.val[i].last

\* The longest run of letters an identifier starts with, and the longest
\* run of digits it ends with.
RECURSIVE AlphaPrefix(_)
AlphaPrefix(id) ==
    IF Len(id) > 0 /\ IsAlpha(id[1]) THEN <<id[1]>> \o AlphaPrefix(Tail(id)) ELSE <<>>

RECURSIVE DigitSuffix(_)
DigitSuffix(id) ==
    IF Len(id) > 0 /\ IsDigit(id[Len(id)])
    THEN Append(DigitSuffix(SubSeq(id, 1, Len(id) - 1)), id[Len(id)])
    ELSE <<>>

FormatFailure(res) == ~res.ok /\ res.site = "InvalidTrialId"

\* C19: load_trial_series_from_id raises the format failure exactly if the
\* letters an identifier starts with or the digits it ends with are none;
\* otherwise, for the identifier load_timeline built from the type and the
\* trial of a row, the category it looks for is that type, stripped and in
\* lower case, and the index it looks for is that trial.
C19_SplitRecoversTypeAndTrial ==
    tOut.trial.called =>
        \A row \in {RowsOfTimeline[tOut.trial.row]} :
            /\ tOut.trial.trial_id = IdOfRow(row)
            /\ FormatFailure(tOut.trial.res)
                  <=> (AlphaPrefix(tOut.trial.trial_id) = <<>>
                          \/ DigitSuffix(tOut.trial.trial_id) = <<>>)
            /\ ~FormatFailure(tOut.trial.res) =>
                  /\ tOut.trial.outcome_str = LowerName(Trimmed(row[1]))
                  /\ tOut.trial.number_str = Trimmed(row[2])

\* The files of the category's subfolder whose names start with one of the
\* two candidate prefixes, letter case ignored.
Candidates(files) ==
    SelectSeq(files,
              LAMBDA f : \E pre \in SchemePrefixes(tIn.part.name, tIn.condition,
                                                   tOut.trial.outcome_str[1],
                                                   IntOf(tOut.trial.number_str)) :
                  StartsWith(LowerName(f.name), pre))

\* The rows of a file as its record.
RecordOf(f) == [i \in 1..Len(f.rows) |-> <<f.rows[i][1], f.rows[i][2]>>]

WellFormed == tOut.trial.called /\ ~FormatFailure(tOut.trial.res)

NotFound(res, site) == ~res.ok /\ res.site = site /\ res.cls = "FileNotFoundError"

\* C20, as the claim states it: for a well-formed identifier the call
\* raises the not-found failure if the participant has no subfolder of the
\* category, and otherwise returns the record of the first file of the
\* subfolder whose name starts with a candidate prefix, or raises the
\* not-found failure if there is none.
C20_FirstFileWithPrefix ==
    WellFormed =>
        IF tOut.trial.outcome_str[1] \notin DOMAIN tIn.part.folders
        THEN NotFound(tOut.trial.res, "SubfolderNotFound")
        ELSE \A found \in {Candidates(tIn.part.folders[tOut.trial.outcome_str[1]])} :
                IF Len(found) = 0
                THEN NotFound(tOut.trial.res, "NoMatchingFile")
                ELSE tOut.trial.res = [ok |-> TRUE, val |-> RecordOf(found[1])]

\* C20, amended: the files considered are those the pattern *.xls* matches,
\* and what is returned is what load_series_from_file gives for the first
\* of them whose name starts with a candidate prefix: its record, or the
\* failure of a file without Variable and Value columns.
C20_FirstXlsFileWithPrefix ==
    WellFormed =>
        IF tOut.trial.outcome_str[1] \notin DOMAIN tIn.part.folders
        THEN NotFound(tOut.trial.res, "SubfolderNotFound")
        ELSE \A found \in {Candidates(SelectSeq(tIn.part.folders[tOut.trial.outcome_str[1]],
                                                LAMBDA f : GlobXls(f.name)))} :
                IF Len(found) = 0
                THEN NotFound(tOut.trial.res, "NoMatchingFile")
                ELSE /\ tOut.trial.res = load_series_from_file(found[1])
                     /\ tOut.trial.res.ok => tOut.trial.res.val = RecordOf(found[1])
                     /\ extract_trial_number(found[1].name) = IntOf(tOut.trial.number_str)

\* C20's case: trial 1 is asked for in a subfolder that enumerates trial 10
\* and a text file of trial 1 before two .xls* files of trial 1, and the
\* record returned is that of the first of the two.
C20_Witness ==
    /\ WellFormed
    /\ tOut.trial.trial_id = <<"win", "1">>
    /\ "win" \in DOMAIN tIn.part.folders
    /\ Len(tIn.part.folders["win"]) = 5
    /\ tOut.trial.res = [ok |-> TRUE, val |-> << <<"A", 1>>, <<"B", 10>> >>]


-----------------------------------------------------------------------------
(* A variable of the first block that the last block lacks (SpecRun) *)

\* The participant directory behind entry j of condition k.
PartOf(k, j) == Participant(hist[k][j].kind, j, seen[k].name, params.outcome)

\* Some variable is in a record of the participant's first block and in no
\* record of its last block, the blocks being the N trials of the smallest
\* and the N trials of the largest trial numbers.
LacksInLastBlock(part, n) ==
    /\ Lower(params.outcome) \in DOMAIN part.folders
    /\ \E blocks \in {BlocksOf(part.folders[Lower(params.outcome)], n)} :
          /\ blocks.count >= 2 * n
          /\ \E var \in RunVariables :
                /\ BlockReports(blocks.first, var)
                /\ ~BlockReports(blocks.last, var)

\* The participants of condition k other than j that contributed var.
ContributorsBut(k, j, var) ==
    {q \in 1..Len(hist[k]) :
        /\ q # j
        /\ hist[k][q].isDir
        /\ hist[k][q].res.ok
        /\ ReportsVar(hist[k][q], var)}

\* C21: a participant with a variable in its first-block records and in
\* none of its last-block records does not aggregate: the call raises the
\* key-lookup failure (no pair with a missing value is reported), the
\* participant is logged by the handler of unexpected failures and not by
\* the handler of expected ones, and it contributes to no variable: every
\* variable of agg, and every row of its condition, counts the other
\* contributors only, also for a variable both of its blocks have.
C21_MissingVariableFailsParticipant ==
    params.used =>
        \A k \in 1..Len(seen) : \A j \in 1..Len(hist[k]) :
            (hist[k][j].isDir /\ LacksInLastBlock(PartOf(k, j), params.n_trials)) =>
                /\ ~hist[k][j].res.ok
                /\ hist[k][j].res.cls = "KeyError"
                /\ Logged("Unexpected", k, hist[k][j].name)
                /\ ~Logged("Skipping", k, hist[k][j].name)
                /\ k = AggEntry =>
                      \A i \in 1..Len(agg) :
                          /\ Len(agg[i].first) =
                                Cardinality(ContributorsBut(k, j, agg[i].var))
                          /\ Len(agg[i].last) =
                                Cardinality(ContributorsBut(k, j, agg[i].var))
                /\ \A i \in 1..Len(Emitted) :
                      Emitted[i].Condition[1] = seen[k].name =>
                          Emitted[i].N =
                              Cardinality(ContributorsBut(k, j, Emitted[i].Variable))

\* C21's case: the run returned its rows, and in one condition a
\* participant lacking B in its last block, with A in both blocks, stands
\* next to exactly one other contributor of A: the row of A counts one
\* participant and B has none from it.
C21_Witness ==
    /\ params.used
    /\ pc = "returned"
    /\ \E k \in 1..Len(seen) : \E j \in 1..Len(hist[k]) :
          /\ hist[k][j].isDir
          /\ LacksInLastBlock(PartOf(k, j), params.n_trials)
          /\ \E blocks \in {BlocksOf(PartOf(k, j).folders[Lower(params.outcome)],
                                     params.n_trials)} :
                BlockReports(blocks.first, "A") /\ BlockReports(blocks.last, "A")
          /\ Cardinality(ContributorsBut(k, j, "A")) = 1
          /\ \E i \in 1..Len(results) :
                /\ results[i].Condition[1] = seen[k].name
                /\ results[i].Variable = "A"
                /\ results[i].N = 1


-----------------------------------------------------------------------------
(* One analysis thread at a time (SpecGui) *)

\* The threads that have not yet stored a table: before the call of
\* run_analysis returns.
BeforeResults == {w \in Running : workers[w].at \in {"try", "call"}}

\* C22: at most one thread of _run_analysis_thread is running at any time.
\* While one runs the Run button is disabled, so that no click starts a
\* second; until the thread's call of run_analysis returns, self.results_df
\* is the None start_analysis wrote before it started the thread; and the
\* Run button is enabled again when the thread has run its last statement,
\* whichever way it left the try statement (the summary, a missing
\* directory, an exception), and not before.
C22_OneWorkerAtATime ==
    inputs.used =>
        /\ Cardinality(Running) <= 1
        /\ Running # {} => run_btn = "disabled" /\ ~Invokes(run_btn)
        /\ BeforeResults # {} => results_df = NoTable
        /\ \A w \in 1..Len(workers) :
              workers[w].at = "done" => workers[w].path \in {"success", "setup", "exception"}
        /\ (Running = {} /\ clicks = Len(workers)) => run_btn = "normal"
        /\ run_btn = "normal" => Running = {}

\* C22's case: a first thread ended with a table of rows, the Run button
\* was clicked again, and the second thread is in its call of run_analysis:
\* the table of the first run is gone and the button is disabled.
C22_Witness ==
    /\ inputs.used
    /\ Len(workers) = 2
    /\ workers[1].at = "done"
    /\ workers[1].path = "success"
    /\ Len(workers[1].df.rows) > 0
    /\ workers[2].at = "call"
    /\ results_df = NoTable
    /\ run_btn = "disabled"

=============================================================================
